---- MODULE Spec2Model ----
(***************************************************************************)
(* Model of the FamilyTree text-to-graph parser (parser.ts).               *)
(*                                                                         *)
(* Text (lines, names, metadata values) is a sequence of one-character     *)
(* strings, so that the regular expressions of parser.ts are modelled by   *)
(* what they match.  Identities are TLA+ strings built exactly as the      *)
(* template literals of parser.ts build them ("root_g1-1", "..._2").       *)
(* An optional field (TypeScript `undefined`) is the empty tuple, a        *)
(* present value v is <<v>>.                                               *)
(***************************************************************************)
EXTENDS Integers, Sequences, FiniteSets, TLC

VARIABLES
    lines,          \* the input lines the for-loop has consumed so far, in order
    log,            \* per consumed line, the branch taken and the locals of the loop body
    personMap,      \* Map<string, Person>: identity -> Person
    currentPerson,  \* Person | null, as the identity of the referenced Person
    currentSpouse,  \* Spouse | null, as (owner identity, position in its spouses)
    parentStack,    \* { generation, personId }[]
    rootId,         \* string, '' until the first generation-1 Person
    pc,             \* "loop" while lines are consumed, "done" after return
    result,         \* the returned FamilyData, once pc = "done"
    arg,            \* the argument of a call of a function on its own (parseYears, extractName, getLayoutedElements)
    ret,            \* the values that call has returned so far, in order
    store,          \* the zustand store of store.ts: familyData, expandedNodes, highlightedNode, pending timers
    twin            \* a second store, handed another FamilyData and driven by the same operations

vars == <<lines, log, personMap, currentPerson, currentSpouse, parentStack, rootId, pc, result,
          arg, ret, store, twin>>

\* the state outside parseFamilyTree
uiVars == <<arg, ret, store, twin>>

----------------------------------------------------------------------------
(* Optional values *)

None == <<>>

Some(v) == <<v>>

IsSome(o) == o /= <<>>

Get(o) == o[1]

----------------------------------------------------------------------------
(* Characters *)

DigitChar == <<"0", "1", "2", "3", "4", "5", "6", "7", "8", "9">>

DigitSet == {DigitChar[i] : i \in 1..10}

\* \d
IsDigit(c) == c \in DigitSet

DigitVal(c) == (CHOOSE i \in 1..10 : DigitChar[i] = c) - 1

UpperChar == <<"A", "B", "C", "D", "E", "F", "G", "H", "I", "J", "K", "L", "M",
               "N", "O", "P", "Q", "R", "S", "T", "U", "V", "W", "X", "Y", "Z">>

LowerChar == <<"a", "b", "c", "d", "e", "f", "g", "h", "i", "j", "k", "l", "m",
               "n", "o", "p", "q", "r", "s", "t", "u", "v", "w", "x", "y", "z">>

LowerSet == {LowerChar[i] : i \in 1..26}

\* [a-z]
IsLowerAZ(c) == c \in LowerSet

\* The characters of a text are the ones a string of this module can hold: the code points
\* up to U+00FF (the grave accent apart) and the code points of the Basic Multilingual
\* Plane whose low byte is 80 or more.  The tables below list, among these, the characters
\* that the built-in functions of the source treat specially.

\* the capital letters beyond A-Z whose lower case is one such character
UpperTable ==
    <<
       "À", "Á", "Â", "Ã", "Ä", "Å", "Æ", "Ç", "È", "É", "Ê", "Ë", "Ì", "Í", "Î", "Ï", "Ð", "Ñ",
       "Ò", "Ó", "Ô", "Õ", "Ö", "Ø", "Ù", "Ú", "Û", "Ü", "Ý", "Þ", "Ƃ", "Ƅ", "Ƈ", "Ƌ", "Ǝ", "Ƒ",
       "Ƙ", "Ơ", "Ƣ", "Ƥ", "Ʀ", "Ƨ", "Ʃ", "Ƭ", "Ʈ", "Ư", "Ʊ", "Ʋ", "Ƴ", "Ƶ", "Ʒ", "Ƹ", "Ƽ", "Ǆ",
       "ǅ", "Ǉ", "ǈ", "Ǌ", "ǋ", "Ǎ", "Ǐ", "Ǒ", "Ǔ", "Ǖ", "Ǘ", "Ǚ", "Ǜ", "Ǟ", "Ǡ", "Ǣ", "Ǥ", "Ǧ",
       "Ǩ", "Ǫ", "Ǭ", "Ǯ", "Ǳ", "ǲ", "Ǵ", "Ƕ", "Ƿ", "Ǹ", "Ǻ", "Ǽ", "Ǿ", "Ά", "Έ", "Ή", "Ί", "Ό",
       "Ύ", "Ώ", "Α", "Β", "Γ", "Δ", "Ε", "Ζ", "Η", "Θ", "Ι", "Κ", "Λ", "Μ", "Ν", "Ξ", "Ο", "Π",
       "Ρ", "Σ", "Τ", "Υ", "Φ", "Χ", "Ψ", "Ω", "Ϊ", "Ϋ", "Ϗ", "Ϙ", "Ϛ", "Ϝ", "Ϟ", "Ϡ", "Ϣ", "Ϥ",
       "Ϧ", "Ϩ", "Ϫ", "Ϭ", "Ϯ", "ϴ", "Ϸ", "Ϲ", "Ϻ", "Ҁ", "Ҋ", "Ҍ", "Ҏ", "Ґ", "Ғ", "Ҕ", "Җ", "Ҙ",
       "Қ", "Ҝ", "Ҟ", "Ҡ", "Ң", "Ҥ", "Ҧ", "Ҩ", "Ҫ", "Ҭ", "Ү", "Ұ", "Ҳ", "Ҵ", "Ҷ", "Ҹ", "Һ", "Ҽ",
       "Ҿ", "Ӏ", "Ӂ", "Ӄ", "Ӆ", "Ӈ", "Ӊ", "Ӌ", "Ӎ", "Ӑ", "Ӓ", "Ӕ", "Ӗ", "Ә", "Ӛ", "Ӝ", "Ӟ", "Ӡ",
       "Ӣ", "Ӥ", "Ӧ", "Ө", "Ӫ", "Ӭ", "Ӯ", "Ӱ", "Ӳ", "Ӵ", "Ӷ", "Ӹ", "Ӻ", "Ӽ", "Ӿ", "Ꮀ", "Ꮁ", "Ꮂ",
       "Ꮃ", "Ꮄ", "Ꮅ", "Ꮆ", "Ꮇ", "Ꮈ", "Ꮉ", "Ꮊ", "Ꮋ", "Ꮌ", "Ꮍ", "Ꮎ", "Ꮏ", "Ꮐ", "Ꮑ", "Ꮒ", "Ꮓ", "Ꮔ",
       "Ꮕ", "Ꮖ", "Ꮗ", "Ꮘ", "Ꮙ", "Ꮚ", "Ꮛ", "Ꮜ", "Ꮝ", "Ꮞ", "Ꮟ", "Ꮠ", "Ꮡ", "Ꮢ", "Ꮣ", "Ꮤ", "Ꮥ", "Ꮦ",
       "Ꮧ", "Ꮨ", "Ꮩ", "Ꮪ", "Ꮫ", "Ꮬ", "Ꮭ", "Ꮮ", "Ꮯ", "Ꮰ", "Ꮱ", "Ꮲ", "Ꮳ", "Ꮴ", "Ꮵ", "Ꮶ", "Ꮷ", "Ꮸ",
       "Ꮹ", "Ꮺ", "Ꮻ", "Ꮼ", "Ꮽ", "Ꮾ", "Ꮿ", "Ᏸ", "Ᏹ", "Ᏺ", "Ᏻ", "Ᏼ", "Ᏽ", "Ᲊ", "Ა", "Ბ", "Გ", "Დ",
       "Ე", "Ვ", "Ზ", "Თ", "Ი", "Კ", "Ლ", "Მ", "Ნ", "Ო", "Პ", "Ჟ", "Რ", "Ს", "Ტ", "Უ", "Ფ", "Ქ",
       "Ღ", "Ყ", "Შ", "Ჩ", "Ც", "Ძ", "Წ", "Ჭ", "Ხ", "Ჯ", "Ჰ", "Ჱ", "Ჲ", "Ჳ", "Ჴ", "Ჵ", "Ჶ", "Ჷ",
       "Ჸ", "Ჹ", "Ჺ", "Ჽ", "Ჾ", "Ჿ", "Ẁ", "Ẃ", "Ẅ", "Ẇ", "Ẉ", "Ẋ", "Ẍ", "Ẏ", "Ẑ", "Ẓ", "Ẕ", "ẞ",
       "Ạ", "Ả", "Ấ", "Ầ", "Ẩ", "Ẫ", "Ậ", "Ắ", "Ằ", "Ẳ", "Ẵ", "Ặ", "Ẹ", "Ẻ", "Ẽ", "Ế", "Ề", "Ể",
       "Ễ", "Ệ", "Ỉ", "Ị", "Ọ", "Ỏ", "Ố", "Ồ", "Ổ", "Ỗ", "Ộ", "Ớ", "Ờ", "Ở", "Ỡ", "Ợ", "Ụ", "Ủ",
       "Ứ", "Ừ", "Ử", "Ữ", "Ự", "Ỳ", "Ỵ", "Ỷ", "Ỹ", "Ỻ", "Ỽ", "Ỿ", "ᾈ", "ᾉ", "ᾊ", "ᾋ", "ᾌ", "ᾍ",
       "ᾎ", "ᾏ", "ᾘ", "ᾙ", "ᾚ", "ᾛ", "ᾜ", "ᾝ", "ᾞ", "ᾟ", "ᾨ", "ᾩ", "ᾪ", "ᾫ", "ᾬ", "ᾭ", "ᾮ", "ᾯ",
       "Ᾰ", "Ᾱ", "ᾼ", "ῌ", "Ῐ", "Ῑ", "Ῠ", "Ῡ", "Ῥ", "ῼ", "Ↄ", "Ⓐ", "Ⓑ", "Ⓒ", "Ⓓ", "Ⓔ", "Ⓕ", "Ⓖ",
       "Ⓗ", "Ⓘ", "Ⓙ", "Ⓚ", "Ⓛ", "Ⓜ", "Ⓝ", "Ⓞ", "Ⓟ", "Ⓠ", "Ⓡ", "Ⓢ", "Ⓣ", "Ⓤ", "Ⓥ", "Ⓦ", "Ⓧ", "Ⓨ",
       "Ⓩ", "Ⲁ", "Ⲃ", "Ⲅ", "Ⲇ", "Ⲉ", "Ⲋ", "Ⲍ", "Ⲏ", "Ⲑ", "Ⲓ", "Ⲕ", "Ⲗ", "Ⲙ", "Ⲛ", "Ⲝ", "Ⲟ", "Ⲡ",
       "Ⲣ", "Ⲥ", "Ⲧ", "Ⲩ", "Ⲫ", "Ⲭ", "Ⲯ", "Ⲱ", "Ⲳ", "Ⲵ", "Ⲷ", "Ⲹ", "Ⲻ", "Ⲽ", "Ⲿ", "Ⳁ", "Ⳃ", "Ⳅ",
       "Ⳇ", "Ⳉ", "Ⳋ", "Ⳍ", "Ⳏ", "Ⳑ", "Ⳓ", "Ⳕ", "Ⳗ", "Ⳙ", "Ⳛ", "Ⳝ", "Ⳟ", "Ⳡ", "Ⳣ", "Ⳬ", "Ⳮ", "Ⳳ",
       "Ꚁ", "Ꚃ", "Ꚅ", "Ꚇ", "Ꚉ", "Ꚋ", "Ꚍ", "Ꚏ", "Ꚑ", "Ꚓ", "Ꚕ", "Ꚗ", "Ꚙ", "Ꚛ", "Ꞁ", "Ꞃ", "Ꞅ", "Ꞇ",
       "Ꞌ", "Ꞑ", "Ꞓ", "Ꞗ", "Ꞙ", "Ꞛ", "Ꞝ", "Ꞟ", "Ꞡ", "Ꞣ", "Ꞥ", "Ꞧ", "Ꞩ", "Ʞ", "Ʇ", "Ʝ", "Ꞵ", "Ꞷ",
       "Ꞹ", "Ꞻ", "Ꞽ", "Ꞿ", "Ꟁ", "Ꟃ", "Ꞔ", "Ʂ", "Ᶎ", "Ꟈ", "Ꟊ", "Ꟍ", "꟎", "Ꟑ", "꟒", "꟔", "Ꟗ", "Ꟙ",
       "Ꟛ", "Ƛ", "Ꟶ"
    >>

\* at the position of each letter of UpperTable, its lower case
LowerTable ==
    <<
       "à", "á", "â", "ã", "ä", "å", "æ", "ç", "è", "é", "ê", "ë", "ì", "í", "î", "ï", "ð", "ñ",
       "ò", "ó", "ô", "õ", "ö", "ø", "ù", "ú", "û", "ü", "ý", "þ", "ƃ", "ƅ", "ƈ", "ƌ", "ǝ", "ƒ",
       "ƙ", "ơ", "ƣ", "ƥ", "ʀ", "ƨ", "ʃ", "ƭ", "ʈ", "ư", "ʊ", "ʋ", "ƴ", "ƶ", "ʒ", "ƹ", "ƽ", "ǆ",
       "ǆ", "ǉ", "ǉ", "ǌ", "ǌ", "ǎ", "ǐ", "ǒ", "ǔ", "ǖ", "ǘ", "ǚ", "ǜ", "ǟ", "ǡ", "ǣ", "ǥ", "ǧ",
       "ǩ", "ǫ", "ǭ", "ǯ", "ǳ", "ǳ", "ǵ", "ƕ", "ƿ", "ǹ", "ǻ", "ǽ", "ǿ", "ά", "έ", "ή", "ί", "ό",
       "ύ", "ώ", "α", "β", "γ", "δ", "ε", "ζ", "η", "θ", "ι", "κ", "λ", "μ", "ν", "ξ", "ο", "π",
       "ρ", "σ", "τ", "υ", "φ", "χ", "ψ", "ω", "ϊ", "ϋ", "ϗ", "ϙ", "ϛ", "ϝ", "ϟ", "ϡ", "ϣ", "ϥ",
       "ϧ", "ϩ", "ϫ", "ϭ", "ϯ", "θ", "ϸ", "ϲ", "ϻ", "ҁ", "ҋ", "ҍ", "ҏ", "ґ", "ғ", "ҕ", "җ", "ҙ",
       "қ", "ҝ", "ҟ", "ҡ", "ң", "ҥ", "ҧ", "ҩ", "ҫ", "ҭ", "ү", "ұ", "ҳ", "ҵ", "ҷ", "ҹ", "һ", "ҽ",
       "ҿ", "ӏ", "ӂ", "ӄ", "ӆ", "ӈ", "ӊ", "ӌ", "ӎ", "ӑ", "ӓ", "ӕ", "ӗ", "ә", "ӛ", "ӝ", "ӟ", "ӡ",
       "ӣ", "ӥ", "ӧ", "ө", "ӫ", "ӭ", "ӯ", "ӱ", "ӳ", "ӵ", "ӷ", "ӹ", "ӻ", "ӽ", "ӿ", "ꮀ", "ꮁ", "ꮂ",
       "ꮃ", "ꮄ", "ꮅ", "ꮆ", "ꮇ", "ꮈ", "ꮉ", "ꮊ", "ꮋ", "ꮌ", "ꮍ", "ꮎ", "ꮏ", "ꮐ", "ꮑ", "ꮒ", "ꮓ", "ꮔ",
       "ꮕ", "ꮖ", "ꮗ", "ꮘ", "ꮙ", "ꮚ", "ꮛ", "ꮜ", "ꮝ", "ꮞ", "ꮟ", "ꮠ", "ꮡ", "ꮢ", "ꮣ", "ꮤ", "ꮥ", "ꮦ",
       "ꮧ", "ꮨ", "ꮩ", "ꮪ", "ꮫ", "ꮬ", "ꮭ", "ꮮ", "ꮯ", "ꮰ", "ꮱ", "ꮲ", "ꮳ", "ꮴ", "ꮵ", "ꮶ", "ꮷ", "ꮸ",
       "ꮹ", "ꮺ", "ꮻ", "ꮼ", "ꮽ", "ꮾ", "ꮿ", "ᏸ", "ᏹ", "ᏺ", "ᏻ", "ᏼ", "ᏽ", "ᲊ", "ა", "ბ", "გ", "დ",
       "ე", "ვ", "ზ", "თ", "ი", "კ", "ლ", "მ", "ნ", "ო", "პ", "ჟ", "რ", "ს", "ტ", "უ", "ფ", "ქ",
       "ღ", "ყ", "შ", "ჩ", "ც", "ძ", "წ", "ჭ", "ხ", "ჯ", "ჰ", "ჱ", "ჲ", "ჳ", "ჴ", "ჵ", "ჶ", "ჷ",
       "ჸ", "ჹ", "ჺ", "ჽ", "ჾ", "ჿ", "ẁ", "ẃ", "ẅ", "ẇ", "ẉ", "ẋ", "ẍ", "ẏ", "ẑ", "ẓ", "ẕ", "ß",
       "ạ", "ả", "ấ", "ầ", "ẩ", "ẫ", "ậ", "ắ", "ằ", "ẳ", "ẵ", "ặ", "ẹ", "ẻ", "ẽ", "ế", "ề", "ể",
       "ễ", "ệ", "ỉ", "ị", "ọ", "ỏ", "ố", "ồ", "ổ", "ỗ", "ộ", "ớ", "ờ", "ở", "ỡ", "ợ", "ụ", "ủ",
       "ứ", "ừ", "ử", "ữ", "ự", "ỳ", "ỵ", "ỷ", "ỹ", "ỻ", "ỽ", "ỿ", "ᾀ", "ᾁ", "ᾂ", "ᾃ", "ᾄ", "ᾅ",
       "ᾆ", "ᾇ", "ᾐ", "ᾑ", "ᾒ", "ᾓ", "ᾔ", "ᾕ", "ᾖ", "ᾗ", "ᾠ", "ᾡ", "ᾢ", "ᾣ", "ᾤ", "ᾥ", "ᾦ", "ᾧ",
       "ᾰ", "ᾱ", "ᾳ", "ῃ", "ῐ", "ῑ", "ῠ", "ῡ", "ῥ", "ῳ", "ↄ", "ⓐ", "ⓑ", "ⓒ", "ⓓ", "ⓔ", "ⓕ", "ⓖ",
       "ⓗ", "ⓘ", "ⓙ", "ⓚ", "ⓛ", "ⓜ", "ⓝ", "ⓞ", "ⓟ", "ⓠ", "ⓡ", "ⓢ", "ⓣ", "ⓤ", "ⓥ", "ⓦ", "ⓧ", "ⓨ",
       "ⓩ", "ⲁ", "ⲃ", "ⲅ", "ⲇ", "ⲉ", "ⲋ", "ⲍ", "ⲏ", "ⲑ", "ⲓ", "ⲕ", "ⲗ", "ⲙ", "ⲛ", "ⲝ", "ⲟ", "ⲡ",
       "ⲣ", "ⲥ", "ⲧ", "ⲩ", "ⲫ", "ⲭ", "ⲯ", "ⲱ", "ⲳ", "ⲵ", "ⲷ", "ⲹ", "ⲻ", "ⲽ", "ⲿ", "ⳁ", "ⳃ", "ⳅ",
       "ⳇ", "ⳉ", "ⳋ", "ⳍ", "ⳏ", "ⳑ", "ⳓ", "ⳕ", "ⳗ", "ⳙ", "ⳛ", "ⳝ", "ⳟ", "ⳡ", "ⳣ", "ⳬ", "ⳮ", "ⳳ",
       "ꚁ", "ꚃ", "ꚅ", "ꚇ", "ꚉ", "ꚋ", "ꚍ", "ꚏ", "ꚑ", "ꚓ", "ꚕ", "ꚗ", "ꚙ", "ꚛ", "ꞁ", "ꞃ", "ꞅ", "ꞇ",
       "ꞌ", "ꞑ", "ꞓ", "ꞗ", "ꞙ", "ꞛ", "ꞝ", "ꞟ", "ꞡ", "ꞣ", "ꞥ", "ꞧ", "ꞩ", "ʞ", "ʇ", "ʝ", "ꞵ", "ꞷ",
       "ꞹ", "ꞻ", "ꞽ", "ꞿ", "ꟁ", "ꟃ", "ꞔ", "ʂ", "ᶎ", "ꟈ", "ꟊ", "ꟍ", "꟏", "ꟑ", "ꟓ", "ꟕ", "ꟗ", "ꟙ",
       "ꟛ", "ƛ", "ꟶ"
    >>

\* capital letters whose lower case is a character that no string of this module can hold
NoLowerCase ==
    {
       "Ɓ", "Ɔ", "Ɖ", "Ɗ", "Ə", "Ɛ", "Ɠ", "Ɣ", "Ɩ", "Ɨ", "Ɯ", "Ɲ", "Ɵ", "Ͻ", "Ͼ", "Ͽ", "Ⴀ", "Ⴁ",
       "Ⴂ", "Ⴃ", "Ⴄ", "Ⴅ", "Ⴆ", "Ⴇ", "Ⴈ", "Ⴉ", "Ⴊ", "Ⴋ", "Ⴌ", "Ⴍ", "Ⴎ", "Ⴏ", "Ⴐ", "Ⴑ", "Ⴒ", "Ⴓ",
       "Ⴔ", "Ⴕ", "Ⴖ", "Ⴗ", "Ⴘ", "Ⴙ", "Ⴚ", "Ⴛ", "Ⴜ", "Ⴝ", "Ⴞ", "Ⴟ", "Ⴠ", "Ⴡ", "Ⴢ", "Ⴣ", "Ⴤ", "Ⴥ",
       "Ⴧ", "Ⴭ", "Ꭰ", "Ꭱ", "Ꭲ", "Ꭳ", "Ꭴ", "Ꭵ", "Ꭶ", "Ꭷ", "Ꭸ", "Ꭹ", "Ꭺ", "Ꭻ", "Ꭼ", "Ꭽ", "Ꭾ", "Ꭿ",
       "Ὰ", "Ά", "Ὲ", "Έ", "Ὴ", "Ή", "Ὶ", "Ί", "Ὺ", "Ύ", "Ὸ", "Ό", "Ὼ", "Ώ", "Ɥ", "Ɦ", "Ɜ", "Ɡ",
       "Ɬ", "Ɪ", "Ꭓ", "Ɤ"
    }

\* the letters of UpperChar and of UpperTable
CapitalLetter == {UpperChar[i] : i \in 1..26} \cup {UpperTable[i] : i \in 1..Len(UpperTable)}

\* toLowerCase on the letters of CapitalLetter; the letters of NoLowerCase have no value
LowerOf ==
    [c \in CapitalLetter |->
        IF \E i \in 1..26 : UpperChar[i] = c
        THEN LowerChar[CHOOSE i \in 1..26 : UpperChar[i] = c]
        ELSE LowerTable[CHOOSE i \in 1..Len(UpperTable) : UpperTable[i] = c]]

\* String.prototype.toLowerCase on one character
ToLowerChar(c) == IF c \in CapitalLetter \/ c \in NoLowerCase THEN LowerOf[c] ELSE c

\* the characters with the Unicode property Case_Ignorable
CaseIgnorable ==
    {
       "'", ".", ":", "^", "¨", "­", "¯", "´", "·", "¸", "ʰ", "ʱ", "ʲ", "ʳ", "ʴ", "ʵ", "ʶ", "ʷ",
       "ʸ", "ʹ", "ʺ", "ʻ", "ʼ", "ʽ", "ʾ", "ʿ", "ˀ", "ˁ", "˂", "˃", "˄", "˅", "ˆ", "ˇ", "ˈ", "ˉ",
       "ˊ", "ˋ", "ˌ", "ˍ", "ˎ", "ˏ", "ː", "ˑ", "˒", "˓", "˔", "˕", "˖", "˗", "˘", "˙", "˚", "˛",
       "˜", "˝", "˞", "˟", "ˠ", "ˡ", "ˢ", "ˣ", "ˤ", "˥", "˦", "˧", "˨", "˩", "˪", "˫", "ˬ", "˭",
       "ˮ", "˯", "˰", "˱", "˲", "˳", "˴", "˵", "˶", "˷", "˸", "˹", "˺", "˻", "˼", "˽", "˾", "˿",
       "΄", "΅", "·", "҃", "҄", "҅", "҆", "҇", "҈", "҉", "֑", "֒", "֓", "֔", "֕", "֖", "֗", "֘",
       "֙", "֚", "֛", "֜", "֝", "֞", "֟", "֠", "֡", "֢", "֣", "֤", "֥", "֦", "֧", "֨", "֩", "֪",
       "֫", "֬", "֭", "֮", "֯", "ְ", "ֱ", "ֲ", "ֳ", "ִ", "ֵ", "ֶ", "ַ", "ָ", "ֹ", "ֺ", "ֻ", "ּ",
       "ֽ", "ֿ", "ׁ", "ׂ", "ׄ", "ׅ", "ׇ", "״", "ۖ", "ۗ", "ۘ", "ۙ", "ۚ", "ۛ", "ۜ", "۝", "۟", "۠",
       "ۡ", "ۢ", "ۣ", "ۤ", "ۥ", "ۦ", "ۧ", "ۨ", "۪", "۫", "۬", "ۭ", "ަ", "ާ", "ި", "ީ", "ު", "ޫ",
       "ެ", "ޭ", "ޮ", "ޯ", "ް", "߫", "߬", "߭", "߮", "߯", "߰", "߱", "߲", "߳", "ߴ", "ߵ", "ߺ", "߽",
       "࢈", "࢐", "࢑", "ࢗ", "࢘", "࢙", "࢚", "࢛", "࢜", "࢝", "࢞", "࢟", "ࣉ", "࣊", "࣋", "࣌", "࣍", "࣎",
       "࣏", "࣐", "࣑", "࣒", "࣓", "ࣔ", "ࣕ", "ࣖ", "ࣗ", "ࣘ", "ࣙ", "ࣚ", "ࣛ", "ࣜ", "ࣝ", "ࣞ", "ࣟ", "࣠",
       "࣡", "࣢", "ࣣ", "ࣤ", "ࣥ", "ࣦ", "ࣧ", "ࣨ", "ࣩ", "࣪", "࣫", "࣬", "࣭", "࣮", "࣯", "ࣰ", "ࣱ", "ࣲ",
       "ࣳ", "ࣴ", "ࣵ", "ࣶ", "ࣷ", "ࣸ", "ࣹ", "ࣺ", "ࣻ", "ࣼ", "ࣽ", "ࣾ", "ࣿ", "ঁ", "়", "ু", "ূ", "ৃ",
       "ৄ", "্", "ৢ", "ৣ", "৾", "ઁ", "ં", "઼", "ુ", "ૂ", "ૃ", "ૄ", "ૅ", "ે", "ૈ", "્", "ૢ", "ૣ",
       "ૺ", "ૻ", "ૼ", "૽", "૾", "૿", "ஂ", "ீ", "்", "ಁ", "಼", "ಿ", "ೆ", "ೌ", "್", "ೢ", "ೣ", "ඁ",
       "්", "ි", "ී", "ු", "ූ", "ັ", "ິ", "ີ", "ຶ", "ື", "ຸ", "ູ", "຺", "ົ", "ຼ", "ໆ", "່", "້",
       "໊", "໋", "໌", "ໍ", "໎", "ྀ", "ཱྀ", "ྂ", "ྃ", "྄", "྆", "྇", "ྍ", "ྎ", "ྏ", "ྐ", "ྑ", "ྒ",
       "ྒྷ", "ྔ", "ྕ", "ྖ", "ྗ", "ྙ", "ྚ", "ྛ", "ྜ", "ྜྷ", "ྞ", "ྟ", "ྠ", "ྡ", "ྡྷ", "ྣ", "ྤ", "ྥ",
       "ྦ", "ྦྷ", "ྨ", "ྩ", "ྪ", "ྫ", "ྫྷ", "ྭ", "ྮ", "ྯ", "ྰ", "ྱ", "ྲ", "ླ", "ྴ", "ྵ", "ྶ", "ྷ",
       "ྸ", "ྐྵ", "ྺ", "ྻ", "ྼ", "࿆", "ႂ", "ႅ", "ႆ", "ႍ", "ႝ", "ჼ", "឴", "឵", "ិ", "ី", "ឹ", "ឺ",
       "ុ", "ូ", "ួ", "ំ", "៉", "៊", "់", "៌", "៍", "៎", "៏", "័", "៑", "្", "៓", "ៗ", "៝", "ᢅ",
       "ᢆ", "ᢩ", "ᪧ", "᪰", "᪱", "᪲", "᪳", "᪴", "᪵", "᪶", "᪷", "᪸", "᪹", "᪺", "᪻", "᪼", "᪽", "᪾",
       "ᪿ", "ᫀ", "᫁", "᫂", "᫃", "᫄", "᫅", "᫆", "᫇", "᫈", "᫉", "᫊", "᫋", "ᫌ", "ᫍ", "ᫎ", "᫏", "᫐",
       "᫑", "᫒", "᫓", "᫔", "᫕", "᫖", "᫗", "᫘", "᫙", "᫚", "᫛", "᫜", "᫝", "᫠", "᫡", "᫢", "᫣", "᫤",
       "᫥", "᫦", "᫧", "᫨", "᫩", "᫪", "᫫", "ᮀ", "ᮁ", "ᮢ", "ᮣ", "ᮤ", "ᮥ", "ᮨ", "ᮩ", "᮫", "ᮬ", "ᮭ",
       "᯦", "ᯨ", "ᯩ", "ᯭ", "ᯯ", "ᯰ", "ᯱ", "᳐", "᳑", "᳒", "᳔", "᳕", "᳖", "᳗", "᳘", "᳙", "᳚", "᳛",
       "᳜", "᳝", "᳞", "᳟", "᳠", "᳢", "᳣", "᳤", "᳥", "᳦", "᳧", "᳨", "᳭", "᳴", "᳸", "᳹", "ᶛ", "ᶜ",
       "ᶝ", "ᶞ", "ᶟ", "ᶠ", "ᶡ", "ᶢ", "ᶣ", "ᶤ", "ᶥ", "ᶦ", "ᶧ", "ᶨ", "ᶩ", "ᶪ", "ᶫ", "ᶬ", "ᶭ", "ᶮ",
       "ᶯ", "ᶰ", "ᶱ", "ᶲ", "ᶳ", "ᶴ", "ᶵ", "ᶶ", "ᶷ", "ᶸ", "ᶹ", "ᶺ", "ᶻ", "ᶼ", "ᶽ", "ᶾ", "ᶿ", "᷀",
       "᷁", "᷂", "᷃", "᷄", "᷅", "᷆", "᷇", "᷈", "᷉", "᷊", "᷋", "᷌", "᷍", "᷎", "᷏", "᷐", "᷑", "᷒",
       "ᷓ", "ᷔ", "ᷕ", "ᷖ", "ᷗ", "ᷘ", "ᷙ", "ᷚ", "ᷛ", "ᷜ", "ᷝ", "ᷞ", "ᷟ", "ᷠ", "ᷡ", "ᷢ", "ᷣ", "ᷤ",
       "ᷥ", "ᷦ", "ᷧ", "ᷨ", "ᷩ", "ᷪ", "ᷫ", "ᷬ", "ᷭ", "ᷮ", "ᷯ", "ᷰ", "ᷱ", "ᷲ", "ᷳ", "ᷴ", "᷵", "᷶",
       "᷷", "᷸", "᷹", "᷺", "᷻", "᷼", "᷽", "᷾", "᷿", "᾽", "᾿", "῀", "῁", "῍", "῎", "῏", "῝", "῞",
       "῟", "῭", "΅", "`", "´", "῾", "ₐ", "ₑ", "ₒ", "ₓ", "ₔ", "ₕ", "ₖ", "ₗ", "ₘ", "ₙ", "ₚ", "ₛ",
       "ₜ", "⃐", "⃑", "⃒", "⃓", "⃔", "⃕", "⃖", "⃗", "⃘", "⃙", "⃚", "⃛", "⃜", "⃝", "⃞", "⃟", "⃠",
       "⃡", "⃢", "⃣", "⃤", "⃥", "⃦", "⃧", "⃨", "⃩", "⃪", "⃫", "⃬", "⃭", "⃮", "⃯", "⃰", "⳯", "⳰",
       "⳱", "ⷠ", "ⷡ", "ⷢ", "ⷣ", "ⷤ", "ⷥ", "ⷦ", "ⷧ", "ⷨ", "ⷩ", "ⷪ", "ⷫ", "ⷬ", "ⷭ", "ⷮ", "ⷯ", "ⷰ",
       "ⷱ", "ⷲ", "ⷳ", "ⷴ", "ⷵ", "ⷶ", "ⷷ", "ⷸ", "ⷹ", "ⷺ", "ⷻ", "ⷼ", "ⷽ", "ⷾ", "ⷿ", "゙", "゚", "゛",
       "゜", "ゝ", "ゞ", "ー", "ヽ", "ヾ", "ꓸ", "ꓹ", "ꓺ", "ꓻ", "ꓼ", "ꓽ", "ꚜ", "ꚝ", "ꚞ", "ꚟ", "꛰", "꛱",
       "ꞈ", "꞉", "꞊", "꟱", "ꟲ", "ꟳ", "ꟴ", "ꟸ", "ꟹ", "꣄", "ꣅ", "꣠", "꣡", "꣢", "꣣", "꣤", "꣥", "꣦",
       "꣧", "꣨", "꣩", "꣪", "꣫", "꣬", "꣭", "꣮", "꣯", "꣰", "꣱", "ꣿ", "ꦀ", "ꦁ", "ꦂ", "꦳", "ꦶ", "ꦷ",
       "ꦸ", "ꦹ", "ꦼ", "ꦽ", "ꧏ", "ꧥ", "ꧦ", "ꪰ", "ꪲ", "ꪳ", "ꪴ", "ꪷ", "ꪸ", "ꪾ", "꪿", "꫁", "ꫝ", "ꫬ",
       "ꫭ", "ꫳ", "ꫴ", "꫶", "ꯥ", "ꯨ", "꯭", "﮲", "﮳", "﮴", "﮵", "﮶", "﮷", "﮸", "﮹", "﮺", "﮻", "﮼",
       "﮽", "﮾", "﮿", "﯀", "﯁", "﯂", "﻿", "ﾞ", "ﾟ", "￣", "￹", "￺", "￻"
    }

\* the characters with the Unicode property Cased that are not Case_Ignorable
CasedLetter ==
    {
       "A", "B", "C", "D", "E", "F", "G", "H", "I", "J", "K", "L", "M", "N", "O", "P", "Q", "R",
       "S", "T", "U", "V", "W", "X", "Y", "Z", "a", "b", "c", "d", "e", "f", "g", "h", "i", "j",
       "k", "l", "m", "n", "o", "p", "q", "r", "s", "t", "u", "v", "w", "x", "y", "z", "ª", "µ",
       "º", "À", "Á", "Â", "Ã", "Ä", "Å", "Æ", "Ç", "È", "É", "Ê", "Ë", "Ì", "Í", "Î", "Ï", "Ð",
       "Ñ", "Ò", "Ó", "Ô", "Õ", "Ö", "Ø", "Ù", "Ú", "Û", "Ü", "Ý", "Þ", "ß", "à", "á", "â", "ã",
       "ä", "å", "æ", "ç", "è", "é", "ê", "ë", "ì", "í", "î", "ï", "ð", "ñ", "ò", "ó", "ô", "õ",
       "ö", "ø", "ù", "ú", "û", "ü", "ý", "þ", "ÿ", "ƀ", "Ɓ", "Ƃ", "ƃ", "Ƅ", "ƅ", "Ɔ", "Ƈ", "ƈ",
       "Ɖ", "Ɗ", "Ƌ", "ƌ", "ƍ", "Ǝ", "Ə", "Ɛ", "Ƒ", "ƒ", "Ɠ", "Ɣ", "ƕ", "Ɩ", "Ɨ", "Ƙ", "ƙ", "ƚ",
       "ƛ", "Ɯ", "Ɲ", "ƞ", "Ɵ", "Ơ", "ơ", "Ƣ", "ƣ", "Ƥ", "ƥ", "Ʀ", "Ƨ", "ƨ", "Ʃ", "ƪ", "ƫ", "Ƭ",
       "ƭ", "Ʈ", "Ư", "ư", "Ʊ", "Ʋ", "Ƴ", "ƴ", "Ƶ", "ƶ", "Ʒ", "Ƹ", "ƹ", "ƺ", "Ƽ", "ƽ", "ƾ", "ƿ",
       "Ǆ", "ǅ", "ǆ", "Ǉ", "ǈ", "ǉ", "Ǌ", "ǋ", "ǌ", "Ǎ", "ǎ", "Ǐ", "ǐ", "Ǒ", "ǒ", "Ǔ", "ǔ", "Ǖ",
       "ǖ", "Ǘ", "ǘ", "Ǚ", "ǚ", "Ǜ", "ǜ", "ǝ", "Ǟ", "ǟ", "Ǡ", "ǡ", "Ǣ", "ǣ", "Ǥ", "ǥ", "Ǧ", "ǧ",
       "Ǩ", "ǩ", "Ǫ", "ǫ", "Ǭ", "ǭ", "Ǯ", "ǯ", "ǰ", "Ǳ", "ǲ", "ǳ", "Ǵ", "ǵ", "Ƕ", "Ƿ", "Ǹ", "ǹ",
       "Ǻ", "ǻ", "Ǽ", "ǽ", "Ǿ", "ǿ", "ʀ", "ʁ", "ʂ", "ʃ", "ʄ", "ʅ", "ʆ", "ʇ", "ʈ", "ʉ", "ʊ", "ʋ",
       "ʌ", "ʍ", "ʎ", "ʏ", "ʐ", "ʑ", "ʒ", "ʓ", "ʖ", "ʗ", "ʘ", "ʙ", "ʚ", "ʛ", "ʜ", "ʝ", "ʞ", "ʟ",
       "ʠ", "ʡ", "ʢ", "ʣ", "ʤ", "ʥ", "ʦ", "ʧ", "ʨ", "ʩ", "ʪ", "ʫ", "ʬ", "ʭ", "ʮ", "ʯ", "Ά", "Έ",
       "Ή", "Ί", "Ό", "Ύ", "Ώ", "ΐ", "Α", "Β", "Γ", "Δ", "Ε", "Ζ", "Η", "Θ", "Ι", "Κ", "Λ", "Μ",
       "Ν", "Ξ", "Ο", "Π", "Ρ", "Σ", "Τ", "Υ", "Φ", "Χ", "Ψ", "Ω", "Ϊ", "Ϋ", "ά", "έ", "ή", "ί",
       "ΰ", "α", "β", "γ", "δ", "ε", "ζ", "η", "θ", "ι", "κ", "λ", "μ", "ν", "ξ", "ο", "π", "ρ",
       "ς", "σ", "τ", "υ", "φ", "χ", "ψ", "ω", "ϊ", "ϋ", "ό", "ύ", "ώ", "Ϗ", "ϐ", "ϑ", "ϒ", "ϓ",
       "ϔ", "ϕ", "ϖ", "ϗ", "Ϙ", "ϙ", "Ϛ", "ϛ", "Ϝ", "ϝ", "Ϟ", "ϟ", "Ϡ", "ϡ", "Ϣ", "ϣ", "Ϥ", "ϥ",
       "Ϧ", "ϧ", "Ϩ", "ϩ", "Ϫ", "ϫ", "Ϭ", "ϭ", "Ϯ", "ϯ", "ϰ", "ϱ", "ϲ", "ϳ", "ϴ", "ϵ", "Ϸ", "ϸ",
       "Ϲ", "Ϻ", "ϻ", "ϼ", "Ͻ", "Ͼ", "Ͽ", "Ҁ", "ҁ", "Ҋ", "ҋ", "Ҍ", "ҍ", "Ҏ", "ҏ", "Ґ", "ґ", "Ғ",
       "ғ", "Ҕ", "ҕ", "Җ", "җ", "Ҙ", "ҙ", "Қ", "қ", "Ҝ", "ҝ", "Ҟ", "ҟ", "Ҡ", "ҡ", "Ң", "ң", "Ҥ",
       "ҥ", "Ҧ", "ҧ", "Ҩ", "ҩ", "Ҫ", "ҫ", "Ҭ", "ҭ", "Ү", "ү", "Ұ", "ұ", "Ҳ", "ҳ", "Ҵ", "ҵ", "Ҷ",
       "ҷ", "Ҹ", "ҹ", "Һ", "һ", "Ҽ", "ҽ", "Ҿ", "ҿ", "Ӏ", "Ӂ", "ӂ", "Ӄ", "ӄ", "Ӆ", "ӆ", "Ӈ", "ӈ",
       "Ӊ", "ӊ", "Ӌ", "ӌ", "Ӎ", "ӎ", "ӏ", "Ӑ", "ӑ", "Ӓ", "ӓ", "Ӕ", "ӕ", "Ӗ", "ӗ", "Ә", "ә", "Ӛ",
       "ӛ", "Ӝ", "ӝ", "Ӟ", "ӟ", "Ӡ", "ӡ", "Ӣ", "ӣ", "Ӥ", "ӥ", "Ӧ", "ӧ", "Ө", "ө", "Ӫ", "ӫ", "Ӭ",
       "ӭ", "Ӯ", "ӯ", "Ӱ", "ӱ", "Ӳ", "ӳ", "Ӵ", "ӵ", "Ӷ", "ӷ", "Ӹ", "ӹ", "Ӻ", "ӻ", "Ӽ", "ӽ", "Ӿ",
       "ӿ", "ր", "ց", "ւ", "փ", "ք", "օ", "ֆ", "և", "ֈ", "Ⴀ", "Ⴁ", "Ⴂ", "Ⴃ", "Ⴄ", "Ⴅ", "Ⴆ", "Ⴇ",
       "Ⴈ", "Ⴉ", "Ⴊ", "Ⴋ", "Ⴌ", "Ⴍ", "Ⴎ", "Ⴏ", "Ⴐ", "Ⴑ", "Ⴒ", "Ⴓ", "Ⴔ", "Ⴕ", "Ⴖ", "Ⴗ", "Ⴘ", "Ⴙ",
       "Ⴚ", "Ⴛ", "Ⴜ", "Ⴝ", "Ⴞ", "Ⴟ", "Ⴠ", "Ⴡ", "Ⴢ", "Ⴣ", "Ⴤ", "Ⴥ", "Ⴧ", "Ⴭ", "ა", "ბ", "გ", "დ",
       "ე", "ვ", "ზ", "თ", "ი", "კ", "ლ", "მ", "ნ", "ო", "პ", "ჟ", "რ", "ს", "ტ", "უ", "ფ", "ქ",
       "ღ", "ყ", "შ", "ჩ", "ც", "ძ", "წ", "ჭ", "ხ", "ჯ", "ჰ", "ჱ", "ჲ", "ჳ", "ჴ", "ჵ", "ჶ", "ჷ",
       "ჸ", "ჹ", "ჺ", "ჽ", "ჾ", "ჿ", "Ꭰ", "Ꭱ", "Ꭲ", "Ꭳ", "Ꭴ", "Ꭵ", "Ꭶ", "Ꭷ", "Ꭸ", "Ꭹ", "Ꭺ", "Ꭻ",
       "Ꭼ", "Ꭽ", "Ꭾ", "Ꭿ", "Ꮀ", "Ꮁ", "Ꮂ", "Ꮃ", "Ꮄ", "Ꮅ", "Ꮆ", "Ꮇ", "Ꮈ", "Ꮉ", "Ꮊ", "Ꮋ", "Ꮌ", "Ꮍ",
       "Ꮎ", "Ꮏ", "Ꮐ", "Ꮑ", "Ꮒ", "Ꮓ", "Ꮔ", "Ꮕ", "Ꮖ", "Ꮗ", "Ꮘ", "Ꮙ", "Ꮚ", "Ꮛ", "Ꮜ", "Ꮝ", "Ꮞ", "Ꮟ",
       "Ꮠ", "Ꮡ", "Ꮢ", "Ꮣ", "Ꮤ", "Ꮥ", "Ꮦ", "Ꮧ", "Ꮨ", "Ꮩ", "Ꮪ", "Ꮫ", "Ꮬ", "Ꮭ", "Ꮮ", "Ꮯ", "Ꮰ", "Ꮱ",
       "Ꮲ", "Ꮳ", "Ꮴ", "Ꮵ", "Ꮶ", "Ꮷ", "Ꮸ", "Ꮹ", "Ꮺ", "Ꮻ", "Ꮼ", "Ꮽ", "Ꮾ", "Ꮿ", "Ᏸ", "Ᏹ", "Ᏺ", "Ᏻ",
       "Ᏼ", "Ᏽ", "ᏸ", "ᏹ", "ᏺ", "ᏻ", "ᏼ", "ᏽ", "ᲀ", "ᲁ", "ᲂ", "ᲃ", "ᲄ", "ᲅ", "ᲆ", "ᲇ", "ᲈ", "Ᲊ",
       "ᲊ", "Ა", "Ბ", "Გ", "Დ", "Ე", "Ვ", "Ზ", "Თ", "Ი", "Კ", "Ლ", "Მ", "Ნ", "Ო", "Პ", "Ჟ", "Რ",
       "Ს", "Ტ", "Უ", "Ფ", "Ქ", "Ღ", "Ყ", "Შ", "Ჩ", "Ც", "Ძ", "Წ", "Ჭ", "Ხ", "Ჯ", "Ჰ", "Ჱ", "Ჲ",
       "Ჳ", "Ჴ", "Ჵ", "Ჶ", "Ჷ", "Ჸ", "Ჹ", "Ჺ", "Ჽ", "Ჾ", "Ჿ", "ᶀ", "ᶁ", "ᶂ", "ᶃ", "ᶄ", "ᶅ", "ᶆ",
       "ᶇ", "ᶈ", "ᶉ", "ᶊ", "ᶋ", "ᶌ", "ᶍ", "ᶎ", "ᶏ", "ᶐ", "ᶑ", "ᶒ", "ᶓ", "ᶔ", "ᶕ", "ᶖ", "ᶗ", "ᶘ",
       "ᶙ", "ᶚ", "Ẁ", "ẁ", "Ẃ", "ẃ", "Ẅ", "ẅ", "Ẇ", "ẇ", "Ẉ", "ẉ", "Ẋ", "ẋ", "Ẍ", "ẍ", "Ẏ", "ẏ",
       "Ẑ", "ẑ", "Ẓ", "ẓ", "Ẕ", "ẕ", "ẖ", "ẗ", "ẘ", "ẙ", "ẚ", "ẛ", "ẜ", "ẝ", "ẞ", "ẟ", "Ạ", "ạ",
       "Ả", "ả", "Ấ", "ấ", "Ầ", "ầ", "Ẩ", "ẩ", "Ẫ", "ẫ", "Ậ", "ậ", "Ắ", "ắ", "Ằ", "ằ", "Ẳ", "ẳ",
       "Ẵ", "ẵ", "Ặ", "ặ", "Ẹ", "ẹ", "Ẻ", "ẻ", "Ẽ", "ẽ", "Ế", "ế", "Ề", "ề", "Ể", "ể", "Ễ", "ễ",
       "Ệ", "ệ", "Ỉ", "ỉ", "Ị", "ị", "Ọ", "ọ", "Ỏ", "ỏ", "Ố", "ố", "Ồ", "ồ", "Ổ", "ổ", "Ỗ", "ỗ",
       "Ộ", "ộ", "Ớ", "ớ", "Ờ", "ờ", "Ở", "ở", "Ỡ", "ỡ", "Ợ", "ợ", "Ụ", "ụ", "Ủ", "ủ", "Ứ", "ứ",
       "Ừ", "ừ", "Ử", "ử", "Ữ", "ữ", "Ự", "ự", "Ỳ", "ỳ", "Ỵ", "ỵ", "Ỷ", "ỷ", "Ỹ", "ỹ", "Ỻ", "ỻ",
       "Ỽ", "ỽ", "Ỿ", "ỿ", "ᾀ", "ᾁ", "ᾂ", "ᾃ", "ᾄ", "ᾅ", "ᾆ", "ᾇ", "ᾈ", "ᾉ", "ᾊ", "ᾋ", "ᾌ", "ᾍ",
       "ᾎ", "ᾏ", "ᾐ", "ᾑ", "ᾒ", "ᾓ", "ᾔ", "ᾕ", "ᾖ", "ᾗ", "ᾘ", "ᾙ", "ᾚ", "ᾛ", "ᾜ", "ᾝ", "ᾞ", "ᾟ",
       "ᾠ", "ᾡ", "ᾢ", "ᾣ", "ᾤ", "ᾥ", "ᾦ", "ᾧ", "ᾨ", "ᾩ", "ᾪ", "ᾫ", "ᾬ", "ᾭ", "ᾮ", "ᾯ", "ᾰ", "ᾱ",
       "ᾲ", "ᾳ", "ᾴ", "ᾶ", "ᾷ", "Ᾰ", "Ᾱ", "Ὰ", "Ά", "ᾼ", "ι", "ῂ", "ῃ", "ῄ", "ῆ", "ῇ", "Ὲ", "Έ",
       "Ὴ", "Ή", "ῌ", "ῐ", "ῑ", "ῒ", "ΐ", "ῖ", "ῗ", "Ῐ", "Ῑ", "Ὶ", "Ί", "ῠ", "ῡ", "ῢ", "ΰ", "ῤ",
       "ῥ", "ῦ", "ῧ", "Ῠ", "Ῡ", "Ὺ", "Ύ", "Ῥ", "ῲ", "ῳ", "ῴ", "ῶ", "ῷ", "Ὸ", "Ό", "Ὼ", "Ώ", "ῼ",
       "Ↄ", "ↄ", "Ⓐ", "Ⓑ", "Ⓒ", "Ⓓ", "Ⓔ", "Ⓕ", "Ⓖ", "Ⓗ", "Ⓘ", "Ⓙ", "Ⓚ", "Ⓛ", "Ⓜ", "Ⓝ", "Ⓞ", "Ⓟ",
       "Ⓠ", "Ⓡ", "Ⓢ", "Ⓣ", "Ⓤ", "Ⓥ", "Ⓦ", "Ⓧ", "Ⓨ", "Ⓩ", "ⓐ", "ⓑ", "ⓒ", "ⓓ", "ⓔ", "ⓕ", "ⓖ", "ⓗ",
       "ⓘ", "ⓙ", "ⓚ", "ⓛ", "ⓜ", "ⓝ", "ⓞ", "ⓟ", "ⓠ", "ⓡ", "ⓢ", "ⓣ", "ⓤ", "ⓥ", "ⓦ", "ⓧ", "ⓨ", "ⓩ",
       "Ⲁ", "ⲁ", "Ⲃ", "ⲃ", "Ⲅ", "ⲅ", "Ⲇ", "ⲇ", "Ⲉ", "ⲉ", "Ⲋ", "ⲋ", "Ⲍ", "ⲍ", "Ⲏ", "ⲏ", "Ⲑ", "ⲑ",
       "Ⲓ", "ⲓ", "Ⲕ", "ⲕ", "Ⲗ", "ⲗ", "Ⲙ", "ⲙ", "Ⲛ", "ⲛ", "Ⲝ", "ⲝ", "Ⲟ", "ⲟ", "Ⲡ", "ⲡ", "Ⲣ", "ⲣ",
       "Ⲥ", "ⲥ", "Ⲧ", "ⲧ", "Ⲩ", "ⲩ", "Ⲫ", "ⲫ", "Ⲭ", "ⲭ", "Ⲯ", "ⲯ", "Ⲱ", "ⲱ", "Ⲳ", "ⲳ", "Ⲵ", "ⲵ",
       "Ⲷ", "ⲷ", "Ⲹ", "ⲹ", "Ⲻ", "ⲻ", "Ⲽ", "ⲽ", "Ⲿ", "ⲿ", "Ⳁ", "ⳁ", "Ⳃ", "ⳃ", "Ⳅ", "ⳅ", "Ⳇ", "ⳇ",
       "Ⳉ", "ⳉ", "Ⳋ", "ⳋ", "Ⳍ", "ⳍ", "Ⳏ", "ⳏ", "Ⳑ", "ⳑ", "Ⳓ", "ⳓ", "Ⳕ", "ⳕ", "Ⳗ", "ⳗ", "Ⳙ", "ⳙ",
       "Ⳛ", "ⳛ", "Ⳝ", "ⳝ", "Ⳟ", "ⳟ", "Ⳡ", "ⳡ", "Ⳣ", "ⳣ", "ⳤ", "Ⳬ", "ⳬ", "Ⳮ", "ⳮ", "Ⳳ", "ⳳ", "Ꚁ",
       "ꚁ", "Ꚃ", "ꚃ", "Ꚅ", "ꚅ", "Ꚇ", "ꚇ", "Ꚉ", "ꚉ", "Ꚋ", "ꚋ", "Ꚍ", "ꚍ", "Ꚏ", "ꚏ", "Ꚑ", "ꚑ", "Ꚓ",
       "ꚓ", "Ꚕ", "ꚕ", "Ꚗ", "ꚗ", "Ꚙ", "ꚙ", "Ꚛ", "ꚛ", "Ꞁ", "ꞁ", "Ꞃ", "ꞃ", "Ꞅ", "ꞅ", "Ꞇ", "ꞇ", "Ꞌ",
       "ꞌ", "Ɥ", "ꞎ", "Ꞑ", "ꞑ", "Ꞓ", "ꞓ", "ꞔ", "ꞕ", "Ꞗ", "ꞗ", "Ꞙ", "ꞙ", "Ꞛ", "ꞛ", "Ꞝ", "ꞝ", "Ꞟ",
       "ꞟ", "Ꞡ", "ꞡ", "Ꞣ", "ꞣ", "Ꞥ", "ꞥ", "Ꞧ", "ꞧ", "Ꞩ", "ꞩ", "Ɦ", "Ɜ", "Ɡ", "Ɬ", "Ɪ", "ꞯ", "Ʞ",
       "Ʇ", "Ʝ", "Ꭓ", "Ꞵ", "ꞵ", "Ꞷ", "ꞷ", "Ꞹ", "ꞹ", "Ꞻ", "ꞻ", "Ꞽ", "ꞽ", "Ꞿ", "ꞿ", "Ꟁ", "ꟁ", "Ꟃ",
       "ꟃ", "Ꞔ", "Ʂ", "Ᶎ", "Ꟈ", "ꟈ", "Ꟊ", "ꟊ", "Ɤ", "Ꟍ", "ꟍ", "꟎", "꟏", "Ꟑ", "ꟑ", "꟒", "ꟓ", "꟔",
       "ꟕ", "Ꟗ", "ꟗ", "Ꟙ", "ꟙ", "Ꟛ", "ꟛ", "Ƛ", "Ꟶ", "ꟶ", "ꟺ", "ꮀ", "ꮁ", "ꮂ", "ꮃ", "ꮄ", "ꮅ", "ꮆ",
       "ꮇ", "ꮈ", "ꮉ", "ꮊ", "ꮋ", "ꮌ", "ꮍ", "ꮎ", "ꮏ", "ꮐ", "ꮑ", "ꮒ", "ꮓ", "ꮔ", "ꮕ", "ꮖ", "ꮗ", "ꮘ",
       "ꮙ", "ꮚ", "ꮛ", "ꮜ", "ꮝ", "ꮞ", "ꮟ", "ꮠ", "ꮡ", "ꮢ", "ꮣ", "ꮤ", "ꮥ", "ꮦ", "ꮧ", "ꮨ", "ꮩ", "ꮪ",
       "ꮫ", "ꮬ", "ꮭ", "ꮮ", "ꮯ", "ꮰ", "ꮱ", "ꮲ", "ꮳ", "ꮴ", "ꮵ", "ꮶ", "ꮷ", "ꮸ", "ꮹ", "ꮺ", "ꮻ", "ꮼ",
       "ꮽ", "ꮾ", "ꮿ"
    }

\* \s, and the characters trim() removes: tab, line feed, vertical tab, form feed,
\* carriage return, blank, no-break space, ogham space mark, zero width no-break space
\* (U+2000-U+200A, U+2028, U+2029, U+202F, U+205F, U+3000 cannot occur in a text of the model)
SpaceChar == {"\t", "\n", "", "\f", "\r", " ", " ", " ", "﻿"}

\* \s
IsSpace(c) == c \in SpaceChar

\* the characters that . does not match: line feed and carriage return
\* (U+2028, U+2029 cannot occur in a text of the model)
IsLineTerminator(c) == c = "\n" \/ c = "\r"

----------------------------------------------------------------------------
(* Strings as character sequences *)

RECURSIVE Join(_)
\* the TLA+ string spelled by a character sequence
Join(s) == IF s = <<>> THEN "" ELSE Head(s) \o Join(Tail(s))

RECURSIVE NatToSeq(_)
NatToSeq(n) ==
    IF n < 10 THEN <<DigitChar[n + 1]>>
    ELSE Append(NatToSeq(n \div 10), DigitChar[(n % 10) + 1])

\* `${n}` for a non-negative integer
NatToStr(n) == Join(NatToSeq(n))

RECURSIVE ParseIntFrom(_, _)
ParseIntFrom(s, acc) ==
    IF s = <<>> THEN acc ELSE ParseIntFrom(Tail(s), acc * 10 + DigitVal(Head(s)))

\* parseInt(s, 10) on a non-empty sequence of digits
ParseInt(s) == ParseIntFrom(s, 0)

Drop(s, n) == SubSeq(s, n + 1, Len(s))

Take(s, n) == SubSeq(s, 1, n)

\* the number of leading characters of s that satisfy the class
RECURSIVE SpanSpace(_)
SpanSpace(s) == IF s /= <<>> /\ IsSpace(Head(s)) THEN 1 + SpanSpace(Tail(s)) ELSE 0

RECURSIVE SpanDigit(_)
SpanDigit(s) == IF s /= <<>> /\ IsDigit(Head(s)) THEN 1 + SpanDigit(Tail(s)) ELSE 0

RECURSIVE TrimEnd(_)
TrimEnd(s) ==
    IF s /= <<>> /\ IsSpace(s[Len(s)]) THEN TrimEnd(Take(s, Len(s) - 1)) ELSE s

\* String.prototype.trim
Trim(s) == TrimEnd(Drop(s, SpanSpace(s)))

StartsWith(s, p) == Len(s) >= Len(p) /\ Take(s, Len(p)) = p

\* s is something that .* matches to its end
NoLineTerminator(s) == \A i \in 1..Len(s) : ~IsLineTerminator(s[i])

\* What \s+(.+)$ or \s*(.+)$ captures in s, as a sequence of at most one text: the text
\* after the white space s begins with; when nothing follows the white space and needs
\* characters of it are given back, the last of them.
RestAfterSpace(s, needs) ==
    LET ws   == SpanSpace(s)
        rest == Drop(s, ws)
    IN  IF rest /= <<>>
        THEN IF ws >= needs /\ NoLineTerminator(rest) THEN <<rest>> ELSE <<>>
        ELSE IF ws >= needs + 1 /\ ~IsLineTerminator(s[ws]) THEN << <<s[ws]>> >> ELSE <<>>

\* String.prototype.includes
Includes(s, p) == \E i \in 0..(Len(s) - Len(p)) : SubSeq(s, i + 1, i + Len(p)) = p

----------------------------------------------------------------------------
(* parseYears (parser.ts 15-30) *)

\* [<>ca] : the characters parseSingleYear deletes
IsYearMarkChar(c) == c \in {"<", ">", "c", "a"}

\* the length of the token matched at the start of s by
\* (\d{4}|[<>]?\d{4}|ca\d{4}) when withCa, by (\d{4}|[<>]?\d{4}) otherwise; 0 if none
YearTokenLen(s, withCa) ==
    IF SpanDigit(s) >= 4 THEN 4
    ELSE IF s /= <<>> /\ Head(s) \in {"<", ">"} /\ SpanDigit(Tail(s)) >= 4 THEN 5
    ELSE IF withCa /\ StartsWith(s, <<"c", "a">>) /\ SpanDigit(Drop(s, 2)) >= 4 THEN 6
    ELSE 0

\* The match of  \((..)?\s*-\s*(..)?\)  that starts at the first character of s:
\* [ok, left, right], the two groups as optional character sequences.
YearsMatchAt(s) ==
    IF s = <<>> \/ Head(s) /= "(" THEN [ok |-> FALSE, left |-> None, right |-> None]
    ELSE
        LET a  == Tail(s)
            n1 == YearTokenLen(a, TRUE)
            b  == Drop(a, n1)
            c  == Drop(b, SpanSpace(b))
        IN  IF c = <<>> \/ Head(c) /= "-" THEN [ok |-> FALSE, left |-> None, right |-> None]
            ELSE
                LET d  == Tail(c)
                    e  == Drop(d, SpanSpace(d))
                    n2 == YearTokenLen(e, FALSE)
                    f  == Drop(e, n2)
                IN  IF f = <<>> \/ Head(f) /= ")"
                    THEN [ok |-> FALSE, left |-> None, right |-> None]
                    ELSE [ok    |-> TRUE,
                          left  |-> IF n1 = 0 THEN None ELSE Some(Take(a, n1)),
                          right |-> IF n2 = 0 THEN None ELSE Some(Take(e, n2))]

RECURSIVE YearsMatch(_)
\* text.match(/.../): the leftmost match
YearsMatch(s) ==
    IF s = <<>> THEN [ok |-> FALSE, left |-> None, right |-> None]
    ELSE IF YearsMatchAt(s).ok THEN YearsMatchAt(s)
    ELSE YearsMatch(Tail(s))

parseSingleYear(tok) ==
    IF ~IsSome(tok) \/ Get(tok) = <<>> THEN None
    ELSE
        LET cleaned == SelectSeq(Get(tok), LAMBDA ch : ~IsYearMarkChar(ch))
            n       == SpanDigit(cleaned)
        IN  IF n = 0 THEN None ELSE Some(ParseInt(Take(cleaned, n)))

\* a parseYears that reads the birth year from the right and the death year from the left
parseYearsSwapped(text) ==
    LET m == YearsMatch(text)
    IN  IF ~m.ok THEN [birthYear |-> None, deathYear |-> None]
        ELSE [birthYear |-> parseSingleYear(m.right),
              deathYear |-> parseSingleYear(m.left)]

parseYears(text) ==
    LET m == YearsMatch(text)
    IN  IF ~m.ok THEN [birthYear |-> None, deathYear |-> None]
        ELSE [birthYear |-> parseSingleYear(m.left),
              deathYear |-> parseSingleYear(m.right)]

----------------------------------------------------------------------------
(* extractName (parser.ts 32-38) *)

\* position of the first ")" in s, 0 if there is none
RECURSIVE IndexOfClose(_, _)
IndexOfClose(s, i) ==
    IF i > Len(s) THEN 0 ELSE IF s[i] = ")" THEN i ELSE IndexOfClose(s, i + 1)

RECURSIVE StripParens(_)
\* .replace(/\([^)]*\)/g, '')
StripParens(s) ==
    IF s = <<>> THEN <<>>
    ELSE IF Head(s) = "(" /\ IndexOfClose(s, 2) > 0
         THEN StripParens(Drop(s, IndexOfClose(s, 2)))
         ELSE <<Head(s)>> \o StripParens(Tail(s))

RECURSIVE AfterIgnorable(_)
\* s without the case-ignorable characters it begins with
AfterIgnorable(s) ==
    IF s /= <<>> /\ Head(s) \in CaseIgnorable THEN AfterIgnorable(Tail(s)) ELSE s

Reverse(s) == [i \in 1..Len(s) |-> s[Len(s) + 1 - i]]

\* the condition Final_Sigma at position i of s: a cased letter before, with nothing but
\* case-ignorable characters in between, and no such cased letter after
IsFinalSigma(s, i) ==
    LET before == AfterIgnorable(Reverse(Take(s, i - 1)))
        after  == AfterIgnorable(Drop(s, i))
    IN  /\ before /= <<>> /\ Head(before) \in CasedLetter
        /\ ~(after /= <<>> /\ Head(after) \in CasedLetter)

\* String.prototype.toLowerCase
LowerSeq(s) ==
    [i \in 1..Len(s) |-> IF s[i] = "Σ" /\ IsFinalSigma(s, i) THEN "ς" ELSE ToLowerChar(s[i])]

\* flag i: the character ch of the text and the character pch of the pattern (one of
\* v, n, é, e) have the same canonical form, that is, ch is pch or its capital
MatchesIgnoreCase(ch, pch) == ch = pch \/ (ch \notin NoLowerCase /\ ToLowerChar(ch) = pch)

StartsWithIgnoreCase(s, mk) ==
    Len(s) >= Len(mk) /\ \A i \in 1..Len(mk) : MatchesIgnoreCase(s[i], mk[i])

\* the alternatives of (VN|né|née), in the order the regular expression tries them
AnnotationMarkers == << <<"v", "n">>, <<"n", "é">>, <<"n", "é", "e">> >>

RECURSIVE SpanNonSpace(_)
SpanNonSpace(s) == IF s /= <<>> /\ ~IsSpace(Head(s)) THEN 1 + SpanNonSpace(Tail(s)) ELSE 0

\* the length of the match of  marker \s+ [^\s]+  at the start of s for one marker; 0 if none
MarkerMatchLen(s, mk) ==
    IF ~StartsWithIgnoreCase(s, mk) THEN 0
    ELSE
        LET a  == Drop(s, Len(mk))
            ws == SpanSpace(a)
            b  == Drop(a, ws)
            tk == SpanNonSpace(b)
        IN  IF ws = 0 \/ tk = 0 THEN 0 ELSE Len(mk) + ws + tk

\* the length of the match of  \s*(VN|né|née)\s+[^\s]+  (flag i) at the start of s; 0 if none
AnnotationMatchLen(s) ==
    LET ws == SpanSpace(s)
        a  == Drop(s, ws)
        hit == {k \in 1..Len(AnnotationMarkers) : MarkerMatchLen(a, AnnotationMarkers[k]) > 0}
    IN  IF hit = {} THEN 0
        ELSE LET k == CHOOSE k \in hit : \A j \in hit : k <= j
             IN  ws + MarkerMatchLen(a, AnnotationMarkers[k])

RECURSIVE StripAnnotations(_)
\* .replace(/\s*(VN|né|née)\s+[^\s]+/gi, '')
StripAnnotations(s) ==
    IF s = <<>> THEN <<>>
    ELSE IF AnnotationMatchLen(s) > 0
         THEN StripAnnotations(Drop(s, AnnotationMatchLen(s)))
         ELSE <<Head(s)>> \o StripAnnotations(Tail(s))

extractName(text) == Trim(StripAnnotations(StripParens(text)))

----------------------------------------------------------------------------
(* Line normalisation and classification (parser.ts 3-13, 50-67, 187, 200-203) *)

CreatedPrefix == <<"C", "r", "e", "a", "t", "e", "d", ":">>

HeaderMarker == <<"D", "e", "s", "c", "e", "n", "d", "a", "n", "t", " ", "C", "h", "a", "r", "t">>

\* the least number k of characters that .*? takes so that \d{4} follows; -1 if none
\* (in a text without line terminator, where (.*)$ matches whatever is left)
RECURSIVE LazyToYear(_, _)
LazyToYear(s, k) ==
    IF Len(s) - k < 4 THEN -1
    ELSE IF SpanDigit(Drop(s, k)) >= 4 THEN k
    ELSE LazyToYear(s, k + 1)

\* rawLine.trim(), then the remainder after /^(Created:.*?\d{4})(.*)$/ trimmed, if it matches
CleanLine(rawLine) ==
    LET t == Trim(rawLine)
    IN  IF StartsWith(t, CreatedPrefix) /\ NoLineTerminator(t)
                                        /\ LazyToYear(Drop(t, Len(CreatedPrefix)), 0) >= 0
        THEN Trim(Drop(t, Len(CreatedPrefix) + LazyToYear(Drop(t, Len(CreatedPrefix)), 0) + 4))
        ELSE t

\* !cleanedLine || cleanedLine.includes('Descendant Chart')
\* a skip test that knows the empty line only
IsSkippedEmptyOnly(cleanedLine) == cleanedLine = <<>>

IsSkipped(cleanedLine) == cleanedLine = <<>> \/ Includes(cleanedLine, HeaderMarker)

NoPersonMatch == [ok |-> FALSE, gen |-> <<>>, idx |-> <<>>, rest |-> <<>>]

\* cleanedLine.match(GENERATION_REGEX),  /^\((\d+)\)\s*(\d+[a-z]?)\s+(.+)$/
PersonMatch(s) ==
    IF s = <<>> \/ Head(s) /= "(" THEN NoPersonMatch
    ELSE
        LET a  == Tail(s)
            n1 == SpanDigit(a)
            b  == Drop(a, n1)
        IN  IF n1 = 0 \/ b = <<>> \/ Head(b) /= ")" THEN NoPersonMatch
            ELSE
                LET c  == Drop(Tail(b), SpanSpace(Tail(b)))
                    n2 == SpanDigit(c)
                    d  == Drop(c, n2)
                    n3 == IF d /= <<>> /\ IsLowerAZ(Head(d)) THEN 1 ELSE 0
                    e  == Drop(d, n3)
                    f  == RestAfterSpace(e, 1)
                IN  IF n2 = 0 \/ f = <<>> THEN NoPersonMatch
                    ELSE [ok |-> TRUE, gen |-> Take(a, n1), idx |-> Take(c, n2 + n3),
                          rest |-> f[1]]

\* cleanedLine.match(SPOUSE_REGEX),  /^&\s+(.+)$/ : the captured text, if it matches
SpouseMatch(s) ==
    IF s /= <<>> /\ Head(s) = "&" THEN RestAfterSpace(Tail(s), 1) ELSE None

\* METADATA_REGEX, in the order Object.entries walks it:
\* the key, the literal prefix, and whether the value may be empty ((.*) rather than (.+))
METADATA_REGEX ==
    << [key |-> "alias",         prefix |-> <<"a", "l", "i", ".">>,                     empty |-> FALSE],
       [key |-> "houseName",     prefix |-> <<"T", "ê", "n", "N", "h", "à", ".">>,      empty |-> FALSE],
       [key |-> "nameVN",        prefix |-> <<"T", "ê", "n", "V", "N", ".">>,           empty |-> FALSE],
       [key |-> "memorialDate",  prefix |-> <<"N", "g", "à", "y", "K", "ỵ", ".">>,      empty |-> FALSE],
       [key |-> "religiousName", prefix |-> <<"P", "h", "á", "p", "N", "m", ".">>,      empty |-> FALSE],
       [key |-> "marriage",      prefix |-> <<"m", ".">>,                               empty |-> TRUE],
       [key |-> "divorce",       prefix |-> <<"d", "i", "v", ".">>,                     empty |-> TRUE] >>

\* cleanedLine.match(regex) for entry k of METADATA_REGEX
MetadataMatches(s, k) ==
    LET e == METADATA_REGEX[k]
    IN  /\ StartsWith(s, e.prefix)
        /\ IF e.empty
           THEN NoLineTerminator(Drop(s, Len(e.prefix) + SpanSpace(Drop(s, Len(e.prefix)))))
           ELSE RestAfterSpace(Drop(s, Len(e.prefix)), 0) /= <<>>

\* the first entry that matches (the loop breaks there): [ok, key, value],
\* value = match[1]?.trim() || ''
MetadataMatch(s) ==
    LET hit == {k \in 1..Len(METADATA_REGEX) : MetadataMatches(s, k)}
    IN  IF hit = {} THEN [ok |-> FALSE, key |-> "", value |-> <<>>]
        ELSE LET k == CHOOSE k \in hit : \A j \in hit : k <= j
             IN  [ok    |-> TRUE,
                  key   |-> METADATA_REGEX[k].key,
                  value |-> Trim(Drop(s, Len(METADATA_REGEX[k].prefix)))]

----------------------------------------------------------------------------
(* Identity resolution (parser.ts 73-135) *)

\* childIndex.replace(/[a-z]$/, '')
BaseIndexRaw(childIndex) ==
    IF childIndex /= <<>> /\ IsLowerAZ(childIndex[Len(childIndex)])
    THEN Take(childIndex, Len(childIndex) - 1)
    ELSE childIndex

RECURSIVE PopStackStrict(_, _)
\* the pop loop with > in place of >=
PopStackStrict(stack, generation) ==
    IF stack /= <<>> /\ stack[Len(stack)].generation > generation
    THEN PopStackStrict(Take(stack, Len(stack) - 1), generation)
    ELSE stack

\* a stack that is never popped
PopStackNone(stack, generation) == stack

RECURSIVE PopStack(_, _)
\* while (parentStack.length > 0 && top.generation >= generation) parentStack.pop()
PopStack(stack, generation) ==
    IF stack /= <<>> /\ stack[Len(stack)].generation >= generation
    THEN PopStack(Take(stack, Len(stack) - 1), generation)
    ELSE stack

\* parentStack.length > 0 ? top.personId : undefined
ParentIdOf(stack) == IF stack /= <<>> THEN Some(stack[Len(stack)].personId) ELSE None

\* JavaScript truthiness of a string | undefined
Truthy(o) == IsSome(o) /\ Get(o) /= ""

PersonCanonicalId(parentId, generation, baseIndexRaw) ==
    IF Truthy(parentId)
    THEN Get(parentId) \o "_g" \o NatToStr(generation) \o "-" \o Join(baseIndexRaw)
    ELSE "root_g" \o NatToStr(generation) \o "-" \o Join(baseIndexRaw)

\* suffix === 1 ? personCanonicalId : `${personCanonicalId}_${suffix}`
CheckId(personCanonicalId, suffix) ==
    IF suffix = 1 THEN personCanonicalId ELSE personCanonicalId \o "_" \o NatToStr(suffix)

\* a normalisation that lower-cases and keeps the whitespace
NormalizeNameKeepSpace(s) == LowerSeq(s)

\* s.toLowerCase().replace(/\s+/g, '')
NormalizeName(s) == SelectSeq(LowerSeq(s), LAMBDA ch : ~IsSpace(ch))

\* a comparison of the names as they are written
SameNameExact(existingName, name) == existingName = name

\* name1 === name2
SameName(existingName, name) == NormalizeName(existingName) = NormalizeName(name)

RECURSIVE ResolveIdAnyName(_, _, _, _)
\* a loop that takes an occupied candidate for the same individual whatever its name
ResolveIdAnyName(map, personCanonicalId, name, suffix) ==
    LET checkId == CheckId(personCanonicalId, suffix)
    IN  [finalId |-> checkId, foundExisting |-> checkId \in DOMAIN map, probes |-> suffix]

\* a resolution without probing: an occupied canonical identity of another name is reused
\* as if it were free
ResolveIdNoProbe(map, personCanonicalId, name, suffix) ==
    [finalId       |-> personCanonicalId,
     foundExisting |-> /\ personCanonicalId \in DOMAIN map
                       /\ SameName(map[personCanonicalId].name, name),
     probes        |-> 1]

RECURSIVE ResolveIdFirstFree(_, _, _, _)
\* a loop that never compares names: it walks to the first unoccupied candidate
ResolveIdFirstFree(map, personCanonicalId, name, suffix) ==
    LET checkId == CheckId(personCanonicalId, suffix)
    IN  IF checkId \in DOMAIN map
        THEN ResolveIdFirstFree(map, personCanonicalId, name, suffix + 1)
        ELSE [finalId |-> checkId, foundExisting |-> FALSE, probes |-> suffix]

RECURSIVE ResolveId(_, _, _, _)
\* the while (true) loop from `suffix` on: the identity it stops at, whether that is an
\* existing Person, and the number of candidates it has looked up by then
ResolveId(map, personCanonicalId, name, suffix) ==
    LET checkId == CheckId(personCanonicalId, suffix)
    IN  IF checkId \in DOMAIN map
        THEN IF SameName(map[checkId].name, name)
             THEN [finalId |-> checkId, foundExisting |-> TRUE, probes |-> suffix]
             ELSE ResolveId(map, personCanonicalId, name, suffix + 1)
        ELSE [finalId |-> checkId, foundExisting |-> FALSE, probes |-> suffix]

----------------------------------------------------------------------------
(* Records *)

NewPerson(finalId, generation, childIndex, name, years, parentId) ==
    [id            |-> finalId,
     generation    |-> generation,
     childIndex    |-> childIndex,
     name          |-> name,
     birthYear     |-> years.birthYear,
     deathYear     |-> years.deathYear,
     spouses       |-> <<>>,
     parentId      |-> parentId,
     nameVN        |-> None,
     alias         |-> None,
     houseName     |-> None,
     memorialDate  |-> None,
     religiousName |-> None]

NewSpouse(spouseText) ==
    [name         |-> extractName(spouseText),
     childrenIds  |-> <<>>,
     nameVN       |-> None,
     marriageDate |-> None,
     divorceDate  |-> None]

\* a link to the parent's first spouse
LinkToParentFirst(map, parentId, finalId) ==
    IF Truthy(parentId) /\ Get(parentId) \in DOMAIN map /\ map[Get(parentId)].spouses /= <<>>
    THEN LET pid  == Get(parentId)
             kids == map[pid].spouses[1].childrenIds
         IN  IF \E i \in 1..Len(kids) : kids[i] = finalId
             THEN map
             ELSE [map EXCEPT ![pid].spouses[1].childrenIds = Append(kids, finalId)]
    ELSE map

\* a link that gives a parent without spouse an "Unknown" spouse to hold the child
LinkToParentUnknown(map, parentId, finalId) ==
    IF Truthy(parentId) /\ Get(parentId) \in DOMAIN map
    THEN LET pid  == Get(parentId)
             sps  == IF map[pid].spouses /= <<>> THEN map[pid].spouses
                     ELSE <<[name         |-> <<"U", "n", "k", "n", "o", "w", "n">>,
                             childrenIds  |-> <<>>,
                             nameVN       |-> None,
                             marriageDate |-> None,
                             divorceDate  |-> None]>>
             last == Len(sps)
             kids == sps[last].childrenIds
         IN  IF \E i \in 1..Len(kids) : kids[i] = finalId
             THEN map
             ELSE [map EXCEPT ![pid].spouses = [sps EXCEPT ![last].childrenIds = Append(kids, finalId)]]
    ELSE map

\* a link made in the children list of every Spouse of the parent
LinkToParentAll(map, parentId, finalId) ==
    IF Truthy(parentId) /\ Get(parentId) \in DOMAIN map
    THEN [map EXCEPT ![Get(parentId)].spouses =
             [i \in 1..Len(@) |-> [@[i] EXCEPT !.childrenIds = Append(@, finalId)]]]
    ELSE map

\* lastSpouse.childrenIds.push(finalId) unless it includes finalId (parser.ts 161-172)
LinkToParent(map, parentId, finalId) ==
    IF Truthy(parentId) /\ Get(parentId) \in DOMAIN map /\ map[Get(parentId)].spouses /= <<>>
    THEN LET pid  == Get(parentId)
             last == Len(map[pid].spouses)
             kids == map[pid].spouses[last].childrenIds
         IN  IF \E i \in 1..Len(kids) : kids[i] = finalId
             THEN map
             ELSE [map EXCEPT ![pid].spouses[last].childrenIds = Append(kids, finalId)]
    ELSE map

\* a spouse put in front of the list
AddSpouseFront(map, id, spouse) ==
    [map EXCEPT ![id].spouses = <<spouse>> \o @]

\* a spouse pushed to the list of every Person of the map
AddSpouseAll(map, id, spouse) ==
    [k \in DOMAIN map |-> [map[k] EXCEPT !.spouses = Append(@, spouse)]]

\* currentPerson.spouses.push(currentSpouse)
AddSpouse(map, id, spouse) ==
    [map EXCEPT ![id].spouses = Append(@, spouse)]

\* a map that does not keep the Person it is handed
MapSetForget(map, key, value) == map

\* personMap.set(finalId, newPerson)
MapSet(map, key, value) ==
    [k \in DOMAIN map \cup {key} |-> IF k = key THEN value ELSE map[k]]

----------------------------------------------------------------------------
(* The input *)

\* the longest input of Spec, in lines
MaxLines == 4

\* the longest input of SpecDeep, in lines
MaxDeepLines == 5

\* the longest input of SpecMeta
MaxMetaLines == 4

\* "(1) 1 Ann (1950-)"
LineAnn == <<"(", "1", ")", " ", "1", " ", "A", "n", "n", " ", "(", "1", "9", "5", "0", "-", ")">>

\* "(1) 1a AN n"
LineAnnA == <<"(", "1", ")", " ", "1", "a", " ", "A", "N", " ", "n">>

\* "(1) 1b Bob"
LineBobB == <<"(", "1", ")", " ", "1", "b", " ", "B", "o", "b">>

\* "(1) 1 Cy"
LineCy == <<"(", "1", ")", " ", "1", " ", "C", "y">>

\* "(2) 1 Bob (1975-)"
LineKidBob == <<"(", "2", ")", " ", "1", " ", "B", "o", "b", " ", "(", "1", "9", "7", "5", "-", ")">>

\* "(2) 1a Eve"
LineKidEve == <<"(", "2", ")", " ", "1", "a", " ", "E", "v", "e">>

\* "& Carol"
LineCarol == <<"&", " ", "C", "a", "r", "o", "l">>

\* "& Diane"
LineDiane == <<"&", " ", "D", "i", "a", "n", "e">>

\* "m. 2011"
LineMarriage == <<"m", ".", " ", "2", "0", "1", "1">>

\* "TênVN. Lan"
LineNameVN == <<"T", "ê", "n", "V", "N", ".", " ", "L", "a", "n">>

\* "ali. Al"
LineAlias == <<"a", "l", "i", ".", " ", "A", "l">>

\* ""
LineBlank == <<>>

\* "(0) 1 Zed"
LineZed == <<"(", "0", ")", " ", "1", " ", "Z", "e", "d">>

\* "(3) 1 Kid"
LineGrandKid == <<"(", "3", ")", " ", "1", " ", "K", "i", "d">>

\* "m."
LineMarriageEmpty == <<"m", ".">>

\* "div. 2010"
LineDivorce == <<"d", "i", "v", ".", " ", "2", "0", "1", "0">>

\* "div."
LineDivorceEmpty == <<"d", "i", "v", ".">>

\* "(1) 1 Descendant Chart"
LineHeader == <<"(", "1", ")", " ", "1", " ", "D", "e", "s", "c", "e", "n", "d", "a", "n", "t", " ", "C", "h", "a", "r", "t">>

\* "xyz"
LineJunk == <<"x", "y", "z">>

\* the lines an input of SpecMeta is made of: every date label with and without
\* a value, a header line, a line of no known shape
MetaInputLines ==
    {LineAnn, LineAnnA, LineZed, LineCarol, LineNameVN, LineMarriage, LineMarriageEmpty,
     LineDivorce, LineDivorceEmpty, LineBlank, LineHeader, LineJunk}

\* the lines an input of Spec is made of
InputLines ==
    {LineAnn, LineAnnA, LineBobB, LineCy, LineKidBob, LineKidEve,
     LineCarol, LineDiane, LineMarriage, LineNameVN, LineAlias, LineBlank}

\* the lines an input of SpecDeep is made of: generations 0 to 3, fewer names
DeepInputLines ==
    {LineZed, LineAnn, LineAnnA, LineKidBob, LineGrandKid, LineCarol, LineMarriage, LineBlank}

----------------------------------------------------------------------------
(* parseFamilyTree (parser.ts 40-251) *)

\* what the loop body did with one line: the branch it took and, for a new-person
\* record, the values of its locals
LogEntry(kind, generation, name, parentId, canonicalId, res) ==
    [kind          |-> kind,
     generation    |-> generation,
     name          |-> name,
     parentId      |-> parentId,
     canonicalId   |-> canonicalId,
     finalId       |-> res.finalId,
     foundExisting |-> res.foundExisting,
     probes        |-> res.probes]

NoResolve == [finalId |-> "", foundExisting |-> FALSE, probes |-> 0]

OtherEntry(kind) == LogEntry(kind, 0, <<>>, None, "", NoResolve)

\* the store as create() of store.ts 18-21 leaves it, with no timeout pending
InitialStore ==
    [familyData |-> None, expandedNodes |-> {}, highlightedNode |-> None, timers |-> 0]

Init ==
    /\ lines = <<>>
    /\ log = <<>>
    /\ personMap = <<>>
    /\ currentPerson = None
    /\ currentSpouse = None
    /\ parentStack = <<>>
    /\ rootId = ""
    /\ pc = "loop"
    /\ result = None
    /\ arg = None
    /\ ret = <<>>
    /\ store = InitialStore
    /\ twin = InitialStore

\* a root that every generation-1 Person created takes over
NextRootIdOverwrite(root, generation, finalId) ==
    IF generation = 1 THEN finalId ELSE root

\* if (generation === 1 && !rootId) rootId = finalId  (parser.ts 156-158)
NextRootId(root, generation, finalId) ==
    IF generation = 1 /\ root = "" THEN finalId ELSE root

\* the for-loop takes the next line
Consume(rawLine) ==
    /\ pc = "loop"
    /\ lines' = Append(lines, rawLine)
    /\ UNCHANGED uiVars

\* parser.ts 62-64: continue
SkipLine(rawLine) ==
    /\ Consume(rawLine)
    /\ IsSkipped(CleanLine(rawLine))
    /\ log' = Append(log, OtherEntry("skip"))
    /\ UNCHANGED <<personMap, currentPerson, currentSpouse, parentStack, rootId, pc, result>>

\* an entry put under the stack
PushStackUnder(stack, generation, finalId) ==
    <<[generation |-> generation, personId |-> finalId]>> \o stack

\* parentStack.push({ generation, personId: finalId }) (parser.ts 140, 181)
PushStack(stack, generation, finalId) ==
    Append(stack, [generation |-> generation, personId |-> finalId])

\* a most recent Spouse that only a record creating a Person clears
SpouseAfterRecordKept(foundExisting, spouse) == IF foundExisting THEN spouse ELSE None

\* a most recent Spouse that only a record merging into a Person clears
SpouseAfterRecordOnMerge(foundExisting, spouse) == IF foundExisting THEN None ELSE spouse

\* currentSpouse = null, in the merge branch (parser.ts 139) and in the create
\* branch (parser.ts 154) alike
SpouseAfterRecord(foundExisting, spouse) == None

\* parser.ts 67-184: a new-person record
NewPersonLine(rawLine) ==
    LET cleanedLine == CleanLine(rawLine)
        personMatch == PersonMatch(cleanedLine)
    IN  /\ Consume(rawLine)
        /\ ~IsSkipped(cleanedLine)
        /\ personMatch.ok
        /\ LET generation   == ParseInt(personMatch.gen)
               childIndex   == personMatch.idx
               rest         == personMatch.rest
               baseIndexRaw == BaseIndexRaw(childIndex)
               stack        == PopStack(parentStack, generation)
               parentId     == ParentIdOf(stack)
               canonicalId  == PersonCanonicalId(parentId, generation, baseIndexRaw)
               years        == parseYears(rest)
               name         == extractName(rest)
               res          == ResolveId(personMap, canonicalId, name, 1)
               finalId      == res.finalId
           IN  /\ log' = Append(log, LogEntry("person", generation, name, parentId, canonicalId, res))
               /\ currentPerson' = Some(finalId)
               /\ currentSpouse' = SpouseAfterRecord(res.foundExisting, currentSpouse)
               /\ parentStack' = PushStack(stack, generation, finalId)
               /\ IF res.foundExisting
                  THEN UNCHANGED <<personMap, rootId>>
                  ELSE /\ personMap' =
                            LinkToParent(
                                MapSet(personMap, finalId,
                                       NewPerson(finalId, generation, childIndex, name, years, parentId)),
                                parentId, finalId)
                       /\ rootId' = NextRootId(rootId, generation, finalId)
        /\ UNCHANGED <<pc, result>>

\* parser.ts 187-196: a spouse marker with a focus Person
SpouseLine(rawLine) ==
    LET cleanedLine == CleanLine(rawLine)
        spouseMatch == SpouseMatch(cleanedLine)
    IN  /\ Consume(rawLine)
        /\ ~IsSkipped(cleanedLine)
        /\ ~PersonMatch(cleanedLine).ok
        /\ IsSome(spouseMatch)
        /\ IsSome(currentPerson)
        /\ LET id == Get(currentPerson)
           IN  /\ personMap' = AddSpouse(personMap, id, NewSpouse(Get(spouseMatch)))
               /\ currentSpouse' = Some([owner |-> id, idx |-> Len(personMap'[id].spouses)])
        /\ log' = Append(log, OtherEntry("spouse"))
        /\ UNCHANGED <<currentPerson, parentStack, rootId, pc, result>>

\* a localized name that always lands on the focus Person
SetNameVNOnPerson(map, id, spouse, value) ==
    [map EXCEPT ![id].nameVN = Some(value)]

\* case 'nameVN' (parser.ts 212-219): the active Spouse if there is one, else the focus Person
SetNameVN(map, id, spouse, value) ==
    IF IsSome(spouse)
    THEN [map EXCEPT ![Get(spouse).owner].spouses[Get(spouse).idx].nameVN = Some(value)]
    ELSE [map EXCEPT ![id].nameVN = Some(value)]

\* the write of one date field of the Spouse at position idx of owner's list
WriteSpouseDate(map, owner, idx, key, value) ==
    IF key = "marriage"
    THEN [map EXCEPT ![owner].spouses[idx].marriageDate = Some(value)]
    ELSE [map EXCEPT ![owner].spouses[idx].divorceDate = Some(value)]

\* a date that, without an active Spouse, lands on the last Spouse of the focus Person
SetSpouseDateOnLast(map, id, spouse, key, value) ==
    IF IsSome(spouse)
    THEN WriteSpouseDate(map, Get(spouse).owner, Get(spouse).idx, key, value)
    ELSE IF map[id].spouses /= <<>>
         THEN WriteSpouseDate(map, id, Len(map[id].spouses), key, value)
         ELSE map

\* case 'marriage' / case 'divorce' (parser.ts 226-237): if (currentSpouse) ... = value
SetSpouseDate(map, id, spouse, key, value) ==
    IF IsSome(spouse)
    THEN WriteSpouseDate(map, Get(spouse).owner, Get(spouse).idx, key, value)
    ELSE map

\* the switch of parser.ts 204-238 on the focus Person id and the active Spouse, if any
ApplyMetadata(map, id, spouse, key, value) ==
    IF key = "alias"
    THEN [map EXCEPT ![id].alias = Some(Append(IF IsSome(@) THEN Get(@) ELSE <<>>, value))]
    ELSE IF key = "houseName" THEN [map EXCEPT ![id].houseName = Some(value)]
    ELSE IF key = "nameVN" THEN SetNameVN(map, id, spouse, value)
    ELSE IF key = "memorialDate" THEN [map EXCEPT ![id].memorialDate = Some(value)]
    ELSE IF key = "religiousName" THEN [map EXCEPT ![id].religiousName = Some(value)]
    ELSE IF key \in {"marriage", "divorce"} THEN SetSpouseDate(map, id, spouse, key, value)
    ELSE map

\* parser.ts 199-242: every other line (a metadata line, a spouse marker without a
\* focus Person, a line of no known shape)
MetadataLine(rawLine) ==
    LET cleanedLine == CleanLine(rawLine)
        match       == MetadataMatch(cleanedLine)
    IN  /\ Consume(rawLine)
        /\ ~IsSkipped(cleanedLine)
        /\ ~PersonMatch(cleanedLine).ok
        /\ ~(IsSome(SpouseMatch(cleanedLine)) /\ IsSome(currentPerson))
        /\ personMap' =
               IF IsSome(currentPerson) /\ match.ok
               THEN ApplyMetadata(personMap, Get(currentPerson), currentSpouse, match.key, match.value)
               ELSE personMap
        /\ log' = Append(log, OtherEntry(IF IsSome(currentPerson) /\ match.ok THEN match.key ELSE "none"))
        /\ UNCHANGED <<currentPerson, currentSpouse, parentStack, rootId, pc, result>>

\* parser.ts 245-250: the end of the input
Return ==
    /\ pc = "loop"
    /\ pc' = "done"
    /\ result' = Some([allPersons |-> personMap, rootId |-> rootId])
    /\ UNCHANGED <<lines, log, personMap, currentPerson, currentSpouse, parentStack, rootId>>
    /\ UNCHANGED uiVars

ProcessLine(rawLine) ==
    \/ SkipLine(rawLine)
    \/ NewPersonLine(rawLine)
    \/ SpouseLine(rawLine)
    \/ MetadataLine(rawLine)

Next ==
    \/ \E rawLine \in InputLines : Len(lines) < MaxLines /\ ProcessLine(rawLine)
    \/ Return

Spec == Init /\ [][Next]_vars

NextDeep ==
    \/ \E rawLine \in DeepInputLines : Len(lines) < MaxDeepLines /\ ProcessLine(rawLine)
    \/ Return

SpecDeep == Init /\ [][NextDeep]_vars

NextMeta ==
    \/ \E rawLine \in MetaInputLines : Len(lines) < MaxMetaLines /\ ProcessLine(rawLine)
    \/ Return

SpecMeta == Init /\ [][NextMeta]_vars

----------------------------------------------------------------------------
(* parseYears called on its own (parser.ts 15-30) *)

\* the markers a year token of an input starts with: none, the three
\* approximation markers, and a letter that is none of them
YearMarks == {<<>>, <<"<">>, <<">">>, <<"c", "a">>, <<"x">>}

\* the digits of a left-hand and of a right-hand token: none, a year, three digits
LeftDigits == {<<>>, <<"1", "9", "2", "0">>, <<"1", "9", "2">>}

RightDigits == {<<>>, <<"1", "9", "9", "5">>, <<"1", "9", "9">>}

\* The texts parseYears is called with, by their parts: "range" is
\* name ( mark digits gap - gap mark digits ), "empty" is name (), "none" is the
\* name alone.
YearInputs ==
    [shape : {"range"}, lmark : YearMarks, ldigits : LeftDigits,
     rmark : YearMarks, rdigits : RightDigits, gap : {<<>>, <<" ">>}]
    \cup [shape : {"empty", "none"}, lmark : {<<>>}, ldigits : {<<>>},
          rmark : {<<>>}, rdigits : {<<>>}, gap : {<<>>}]

\* the text of an input: "Ann (1920-1995)", "Ann (ca1920 - )", "Ann ()", "Ann"
YearsText(in) ==
    LET name == <<"A", "n", "n">>
    IN  IF in.shape = "none" THEN name
        ELSE IF in.shape = "empty" THEN name \o <<" ", "(", ")">>
        ELSE name \o <<" ", "(">> \o in.lmark \o in.ldigits \o in.gap \o <<"-">>
                  \o in.gap \o in.rmark \o in.rdigits \o <<")">>

\* the state in which parseFamilyTree has not been called
ParserIdle ==
    /\ lines = <<>>
    /\ log = <<>>
    /\ personMap = <<>>
    /\ currentPerson = None
    /\ currentSpouse = None
    /\ parentStack = <<>>
    /\ rootId = ""
    /\ pc = "loop"
    /\ result = None

parserVars ==
    <<lines, log, personMap, currentPerson, currentSpouse, parentStack, rootId, pc, result>>

InitYears ==
    /\ ParserIdle
    /\ arg \in {Some(in) : in \in YearInputs}
    /\ ret = <<>>
    /\ store = InitialStore
    /\ twin = InitialStore

\* the call parseYears(text)
CallParseYears ==
    /\ ret = <<>>
    /\ ret' = <<parseYears(YearsText(Get(arg)))>>
    /\ UNCHANGED <<parserVars, arg, store, twin>>

NextYears == CallParseYears

SpecYears == InitYears /\ [][NextYears]_vars

----------------------------------------------------------------------------
(* extractName called on its own (parser.ts 32-38) *)

\* the tokens the texts of SpecName are made of: "Ann", "René", "Lan", "VN", "né",
\* "née", "(1950-)"
NameWords ==
    {<<"A", "n", "n">>, <<"R", "e", "n", "é">>, <<"L", "a", "n">>, <<"V", "N">>,
     <<"n", "é">>, <<"n", "é", "e">>, <<"(", "1", "9", "5", "0", "-", ")">>}

\* the most tokens of a text of SpecName
MaxWords == 3

\* a text by its parts: one to MaxWords tokens, and whether blanks surround it
NameInputs ==
    UNION {[words : [1..n -> NameWords], padded : BOOLEAN] : n \in 1..MaxWords}

RECURSIVE JoinWords(_)
\* the tokens with one blank between neighbours
JoinWords(words) ==
    IF Len(words) = 0 THEN <<>>
    ELSE IF Len(words) = 1 THEN words[1]
    ELSE words[1] \o <<" ">> \o JoinWords(Tail(words))

\* the text of an input: "René Lan", " Ann VN Lan "
NameText(in) ==
    IF in.padded THEN <<" ">> \o JoinWords(in.words) \o <<" ">> ELSE JoinWords(in.words)

InitName ==
    /\ ParserIdle
    /\ arg \in {Some(in) : in \in NameInputs}
    /\ ret = <<>>
    /\ store = InitialStore
    /\ twin = InitialStore

\* the call extractName(text)
CallExtractName ==
    /\ ret = <<>>
    /\ ret' = <<extractName(NameText(Get(arg)))>>
    /\ UNCHANGED <<parserVars, arg, store, twin>>

\* the call of extractName on the value it returned
CallExtractNameAgain ==
    /\ Len(ret) = 1
    /\ ret' = Append(ret, extractName(ret[1]))
    /\ UNCHANGED <<parserVars, arg, store, twin>>

NextName == CallExtractName \/ CallExtractNameAgain

SpecName == InitName /\ [][NextName]_vars

----------------------------------------------------------------------------
(* getLayoutedElements (components/FamilyTree.tsx 23-125) *)

\* Set.prototype.add on a Set kept in insertion order
SetAdd(seq, x) == IF \E i \in 1..Len(seq) : seq[i] = x THEN seq ELSE Append(seq, x)

\* Set.prototype.has
SetHas(seq, x) == \E i \in 1..Len(seq) : seq[i] = x

RECURSIVE AllChildIds(_)
\* person.spouses.forEach(spouse => spouse.childrenIds.forEach(...)): the child
\* identities in the order the two loops visit them
AllChildIds(spouses) ==
    IF spouses = <<>> THEN <<>>
    ELSE Head(spouses).childrenIds \o AllChildIds(Tail(spouses))

\* the names every plain object inherits from Object.prototype: allPersons[name] is a
\* function (for __proto__ the prototype object) unless allPersons has a key of that name
InheritedNames ==
    {"constructor", "__defineGetter__", "__defineSetter__", "hasOwnProperty",
     "__lookupGetter__", "__lookupSetter__", "isPrototypeOf", "propertyIsEnumerable",
     "toString", "valueOf", "__proto__", "toLocaleString"}

\* allPersons[personId] is a Person
IsPersonKey(allPersons, personId) == personId \in DOMAIN allPersons

\* allPersons[personId] is truthy: a Person, or what the name inherits
IsTruthyLookup(allPersons, personId) ==
    personId \in DOMAIN allPersons \/ personId \in InheritedNames

\* the outcome of a call that has left visiblePersons as given and returned
Returned(visiblePersons) == [visiblePersons |-> visiblePersons, thrown |-> FALSE]

\* the outcome of a call that has left visiblePersons as given and thrown a TypeError
Thrown(visiblePersons) == [visiblePersons |-> visiblePersons, thrown |-> TRUE]

RECURSIVE addVisible(_, _, _, _)
RECURSIVE AddVisibleAll(_, _, _, _)

\* an addVisible that descends whether or not the Person is expanded
addVisibleAlways(allPersons, expandedNodes, visiblePersons, personId) ==
    IF ~IsTruthyLookup(allPersons, personId) THEN Returned(visiblePersons)
    ELSE IF ~IsPersonKey(allPersons, personId) THEN Thrown(SetAdd(visiblePersons, personId))
    ELSE AddVisibleAll(allPersons, expandedNodes, SetAdd(visiblePersons, personId),
                       AllChildIds(allPersons[personId].spouses))

\* addVisible(personId) (FamilyTree.tsx 35-48): visiblePersons after the call, and whether
\* the call has thrown (person.spouses is undefined for an inherited name, line 42)
addVisible(allPersons, expandedNodes, visiblePersons, personId) ==
    IF ~IsTruthyLookup(allPersons, personId) THEN Returned(visiblePersons)
    ELSE IF personId \notin expandedNodes THEN Returned(SetAdd(visiblePersons, personId))
    ELSE IF ~IsPersonKey(allPersons, personId) THEN Thrown(SetAdd(visiblePersons, personId))
    ELSE AddVisibleAll(allPersons, expandedNodes, SetAdd(visiblePersons, personId),
                       AllChildIds(allPersons[personId].spouses))

\* the calls addVisible(childId) of FamilyTree.tsx 42-46, one child after the other,
\* up to the first that throws
AddVisibleAll(allPersons, expandedNodes, visiblePersons, childIds) ==
    IF childIds = <<>> THEN Returned(visiblePersons)
    ELSE LET first == addVisible(allPersons, expandedNodes, visiblePersons, Head(childIds))
         IN  IF first.thrown THEN first
             ELSE AddVisibleAll(allPersons, expandedNodes, first.visiblePersons, Tail(childIds))

\* the node pushed for a visible Person (FamilyTree.tsx 62-85), without its position
NodeOf(person) ==
    [id   |-> person.id,
     data |-> [name        |-> person.name,
               generation  |-> person.generation,
               hasChildren |-> \E i \in 1..Len(person.spouses) :
                                   person.spouses[i].childrenIds /= <<>>,
               personId    |-> person.id]]

\* the edges pushed for a visible Person (FamilyTree.tsx 88-101)
EdgesOf(person, visiblePersons) ==
    LET kids == SelectSeq(AllChildIds(person.spouses), LAMBDA c : SetHas(visiblePersons, c))
    IN  [i \in 1..Len(kids) |->
            [id |-> person.id \o "-" \o kids[i], source |-> person.id, target |-> kids[i]]]

RECURSIVE EdgesOfAll(_, _, _)
\* visiblePersons.forEach of FamilyTree.tsx 58-102, the edges
EdgesOfAll(allPersons, shown, visiblePersons) ==
    IF shown = <<>> THEN <<>>
    ELSE EdgesOf(allPersons[Head(shown)], visiblePersons)
         \o EdgesOfAll(allPersons, Tail(shown), visiblePersons)

\* getLayoutedElements(allPersons, rootId, expandedNodes): nodes and edges in the
\* order they are pushed (the positions dagre assigns are not modelled), or the TypeError
\* that addVisible (line 42) or the forEach of line 58 (person.spouses of an inherited
\* name, line 62) throws
getLayoutedElements(allPersons, root, expandedNodes) ==
    LET visible ==
            IF root /= "" /\ IsTruthyLookup(allPersons, root)
            THEN addVisible(allPersons, expandedNodes, <<>>, root)
            ELSE Returned(<<>>)
        visiblePersons == visible.visiblePersons
    IN  IF visible.thrown
           \/ \E i \in 1..Len(visiblePersons) : ~IsPersonKey(allPersons, visiblePersons[i])
        THEN [thrown |-> TRUE]
        ELSE [thrown |-> FALSE,
              nodes  |-> [i \in 1..Len(visiblePersons) |-> NodeOf(allPersons[visiblePersons[i]])],
              edges  |-> EdgesOfAll(allPersons, visiblePersons, visiblePersons)]

\* the identity no FamilyData of SpecLayout has a Person for
GhostId == "ghost"

\* an identity no FamilyData of SpecLayout has a Person for, and every object inherits
InheritedId == "toString"

\* the most children a list of SpecLayout names
MaxKids == 2

\* a Person of a FamilyData of SpecLayout: one Spouse with the given children
LayoutPerson(id, kids) ==
    [NewPerson(id, 1, <<"1">>, <<"P">>, [birthYear |-> None, deathYear |-> None], None)
        EXCEPT !.spouses = <<[NewSpouse(<<"S">>) EXCEPT !.childrenIds = kids]>>]

\* the children lists of Person "a": up to MaxKids of "b", "c", the ghost and the
\* inherited name
KidsOfA == UNION {[1..n -> {"b", "c", GhostId, InheritedId}] : n \in 0..MaxKids}

\* the children lists of Person "b"
KidsOfB == {<<>>, <<"c">>, <<GhostId>>, <<InheritedId>>}

\* the allPersons of SpecLayout: Persons "a", "a" and "b", or "a", "b" and "c";
\* children lists may name Persons the map lacks; no Person is its own descendant
LayoutFamilies ==
    {[id \in keys |-> LayoutPerson(id, IF id = "a" THEN ka ELSE IF id = "b" THEN kb ELSE <<>>)] :
        keys \in {{"a"}, {"a", "b"}, {"a", "b", "c"}}, ka \in KidsOfA, kb \in KidsOfB}

\* the arguments getLayoutedElements is called with
LayoutInputs ==
    [allPersons : LayoutFamilies, rootId : {"", "a", "b", GhostId, InheritedId},
     expandedNodes : SUBSET {"a", "b", GhostId, InheritedId}]

InitLayout ==
    /\ ParserIdle
    /\ arg \in {Some(in) : in \in LayoutInputs}
    /\ ret = <<>>
    /\ store = InitialStore
    /\ twin = InitialStore

\* the call getLayoutedElements(allPersons, rootId, expandedNodes)
CallLayout ==
    /\ ret = <<>>
    /\ ret' = <<getLayoutedElements(Get(arg).allPersons, Get(arg).rootId, Get(arg).expandedNodes)>>
    /\ UNCHANGED <<parserVars, arg, store, twin>>

NextLayout == CallLayout

SpecLayout == InitLayout /\ [][NextLayout]_vars

----------------------------------------------------------------------------
(* getPathToRoot (components/SearchBar.tsx 60-73) *)

\* current.id and current.parentId of what an inherited name looks up: undefined
Undefined == None

RECURSIVE PathFrom(_, _)
\* the while loop of SearchBar.tsx 64-71, entered with current = allPersons[personId]
PathFrom(allPersons, personId) ==
    IF ~IsTruthyLookup(allPersons, personId) THEN <<>>
    ELSE IF ~IsPersonKey(allPersons, personId) THEN <<Undefined>>
    ELSE LET current == allPersons[personId]
         IN  IF Truthy(current.parentId)
             THEN <<current.id>> \o PathFrom(allPersons, Get(current.parentId))
             ELSE <<current.id>>

\* getPathToRoot(personId) on a loaded FamilyData
getPathToRoot(allPersons, personId) == PathFrom(allPersons, personId)

----------------------------------------------------------------------------
(* useTreeStore (store.ts 18-78) *)

\* a setFamilyData that expands only the Persons that have a child
setFamilyDataParents(st, data) ==
    [st EXCEPT !.familyData = Some(data),
               !.expandedNodes =
                   {data.allPersons[k].id : k \in
                       {j \in DOMAIN data.allPersons :
                           AllChildIds(data.allPersons[j].spouses) /= <<>>}}]

\* setFamilyData(data) (store.ts 26-33)
setFamilyData(st, data) ==
    [st EXCEPT !.familyData = Some(data),
               !.expandedNodes = {data.allPersons[k].id : k \in DOMAIN data.allPersons}]

\* toggleNode(id) (store.ts 35-44)
toggleNode(st, id) ==
    [st EXCEPT !.expandedNodes = IF id \in @ THEN @ \ {id} ELSE @ \cup {id}]

\* toggleGeneration(generation, expand) (store.ts 46-61)
toggleGeneration(st, generation, expand) ==
    IF ~IsSome(st.familyData) THEN st
    ELSE LET all == Get(st.familyData).allPersons
             ids == {all[k].id : k \in {j \in DOMAIN all : all[j].generation = generation}}
         IN  [st EXCEPT !.expandedNodes = IF expand THEN @ \cup ids ELSE @ \ ids]

\* expandPath(ids) (store.ts 63-68)
expandPath(st, ids) ==
    [st EXCEPT !.expandedNodes = @ \cup {ids[i] : i \in 1..Len(ids)}]

\* highlightNode(id) (store.ts 70-75), id an optional identity: the highlight is
\* set and, for an identity, one more timeout is pending
highlightNode(st, id) ==
    [st EXCEPT !.highlightedNode = id,
               !.timers = IF IsSome(id) /\ Get(id) /= "" THEN @ + 1 ELSE @]

\* the callback of setTimeout (store.ts 73), 2000 ms after a highlightNode(id)
highlightTimeout(st) ==
    [st EXCEPT !.highlightedNode = None, !.timers = @ - 1]

\* isExpanded(id) (store.ts 77)
isExpanded(st, id) == id \in st.expandedNodes

\* the most timeouts pending at once
MaxTimers == 2

\* a Person of a FamilyData of SpecStore
StorePerson(id, generation, name, kids) ==
    [NewPerson(id, generation, <<"1">>, name, [birthYear |-> None, deathYear |-> None], None)
        EXCEPT !.spouses = <<[NewSpouse(<<"S">>) EXCEPT !.childrenIds = kids]>>]

\* The FamilyData values of SpecStore: all have the Persons "a" and "b"; the
\* generation of "b", the names and the children of "a" vary.
StoreFamilies ==
    {[allPersons |-> [id \in {"a", "b"} |->
                         StorePerson(id, IF id = "a" THEN 1 ELSE gb, name,
                                     IF id = "a" THEN ka ELSE <<>>)],
      rootId     |-> "a"] :
        gb \in {1, 2}, name \in {<<"P">>, <<"Q">>}, ka \in {<<>>, <<"b">>}}

\* two stores at module load; arg holds the FamilyData each will be handed
InitStore ==
    /\ ParserIdle
    /\ arg \in {Some([data |-> d, twinData |-> t]) : d \in StoreFamilies, t \in StoreFamilies}
    /\ ret = <<>>
    /\ store = InitialStore
    /\ twin = InitialStore

\* App's effect (part_002 15-25): each store is handed its FamilyData, once
SetFamilyData ==
    /\ ~IsSome(store.familyData)
    /\ store' = setFamilyData(store, Get(arg).data)
    /\ twin' = setFamilyData(twin, Get(arg).twinData)
    /\ UNCHANGED <<parserVars, arg, ret>>

ToggleNode(id) ==
    /\ store' = toggleNode(store, id)
    /\ twin' = toggleNode(twin, id)
    /\ UNCHANGED <<parserVars, arg, ret>>

ToggleGeneration(generation, expand) ==
    /\ store' = toggleGeneration(store, generation, expand)
    /\ twin' = toggleGeneration(twin, generation, expand)
    /\ UNCHANGED <<parserVars, arg, ret>>

ExpandPath(ids) ==
    /\ store' = expandPath(store, ids)
    /\ twin' = expandPath(twin, ids)
    /\ UNCHANGED <<parserVars, arg, ret>>

HighlightNode(id) ==
    /\ IsSome(id) => store.timers < MaxTimers
    /\ store' = highlightNode(store, id)
    /\ twin' = highlightNode(twin, id)
    /\ UNCHANGED <<parserVars, arg, ret>>

\* one pending timeout of each store expires
HighlightTimeout ==
    /\ store.timers > 0
    /\ store' = highlightTimeout(store)
    /\ twin' = highlightTimeout(twin)
    /\ UNCHANGED <<parserVars, arg, ret>>

\* isExpanded(id) is asked of both stores; ret keeps the two answers
IsExpanded(id) ==
    /\ ret' = <<[id |-> id, answer |-> isExpanded(store, id), twinAnswer |-> isExpanded(twin, id)]>>
    /\ UNCHANGED <<parserVars, arg, store, twin>>

NextStore ==
    \/ SetFamilyData
    \/ \E id \in {"a", "b", GhostId} : ToggleNode(id)
    \/ \E generation \in {1, 2}, expand \in BOOLEAN : ToggleGeneration(generation, expand)
    \/ \E ids \in {<<"a">>, <<"a", "b">>, <<GhostId>>} : ExpandPath(ids)
    \/ \E id \in {None, Some("a"), Some("b")} : HighlightNode(id)
    \/ HighlightTimeout
    \/ \E id \in {"a", "b", GhostId} : IsExpanded(id)

SpecStore == InitStore /\ [][NextStore]_vars





----------------------------------------------------------------------------
(* Properties *)

\* the positions of the new-person records among the consumed lines
PersonEntries == {i \in 1..Len(log) : log[i].kind = "person"}

MinOf(S) == CHOOSE x \in S : \A y \in S : x <= y

MaxOf(S) == CHOOSE x \in S : \A y \in S : x >= y

\* the positions of the generation-1 new-person records
Gen1Entries == {i \in PersonEntries : log[i].generation = 1}

\* C1 (root uniqueness): after any prefix of the input, rootId is empty if no
\* generation-1 new-person record has been processed, and otherwise is the identity
\* resolved for the first generation-1 record in line order, whatever later
\* generation-1 records (creating or merging) have followed it.
C1_RootUniqueness ==
    rootId = IF Gen1Entries = {} THEN "" ELSE log[MinOf(Gen1Entries)].finalId

\* a root followed by a generation-1 record that created another Person and by one
\* that merged into an existing Person
C1_Witness ==
    /\ rootId = "root_g1-1"
    /\ \E i, j \in Gen1Entries :
          /\ MinOf(Gen1Entries) < i /\ MinOf(Gen1Entries) < j
          /\ ~log[i].foundExisting /\ log[i].finalId /= rootId
          /\ log[j].foundExisting

\* C8 (parent resolution): the parent identity of a new-person record of generation g
\* is the identity resolved for the most recent earlier new-person record of a
\* generation strictly smaller than g, and is absent exactly when there is none.
C8_ParentResolution ==
    \A j \in PersonEntries :
        LET older == {i \in PersonEntries : i < j /\ log[i].generation < log[j].generation}
        IN  log[j].parentId = IF older = {} THEN None ELSE Some(log[MaxOf(older)].finalId)

\* a generation-2 record that follows a generation-3 record: the pop loop has removed
\* the generation-3 entry and the parent is the generation-1 Person before it
C8_Witness ==
    \E i, j, k \in PersonEntries :
        /\ i < j /\ j < k
        /\ log[i].generation = 1 /\ log[j].generation = 3 /\ log[k].generation = 2
        /\ log[k].parentId = Some(log[i].finalId)
        /\ \A m \in PersonEntries : (i < m /\ m < k) => m = j

\* the name as the comparison of the claims sees it: letters in lower case, no whitespace
RECURSIVE WithoutSpace(_)
WithoutSpace(s) ==
    IF s = <<>> THEN <<>>
    ELSE IF IsSpace(Head(s)) THEN WithoutSpace(Tail(s))
    ELSE <<Head(s)>> \o WithoutSpace(Tail(s))

Squash(s) == WithoutSpace(LowerSeq(s))

\* the identities of a canonical slot: the canonical identity and its "_n" variants
SlotVariant(canonicalId, n) ==
    IF n = 1 THEN canonicalId ELSE canonicalId \o "_" \o NatToStr(n)

SlotIds(canonicalId) == {SlotVariant(canonicalId, n) : n \in 1..(Len(log) + 1)}

\* the identity in focus when line k is processed: the one resolved for the most recent
\* new-person record before it
FocusAt(k) ==
    LET before == {i \in PersonEntries : i < k}
    IN  IF before = {} THEN None ELSE Some(log[MaxOf(before)].finalId)

\* a spouse marker: a line of the shape "& text" and not that of a new-person record
IsMarkerLine(rawLine) ==
    LET cl == CleanLine(rawLine)
    IN  ~IsSkipped(cl) /\ ~PersonMatch(cl).ok /\ IsSome(SpouseMatch(cl))

\* line k is a spouse marker
IsSpouseMarker(k) == IsMarkerLine(lines[k])

\* line k is an alias line
IsAliasLine(k) ==
    LET cl == CleanLine(lines[k])
    IN  /\ ~IsSkipped(cl) /\ ~PersonMatch(cl).ok /\ ~IsSome(SpouseMatch(cl))
        /\ MetadataMatch(cl).ok /\ MetadataMatch(cl).key = "alias"

RECURSIVE Ascending(_)
\* the elements of a set of numbers in increasing order
Ascending(S) == IF S = {} THEN <<>> ELSE <<MinOf(S)>> \o Ascending(S \ {MinOf(S)})

\* the names of the spouse markers processed while id was in focus, in line order
MarkerNames(id) ==
    LET ks == Ascending({k \in 1..Len(lines) : IsSpouseMarker(k) /\ FocusAt(k) = Some(id)})
    IN  [n \in 1..Len(ks) |-> extractName(Get(SpouseMatch(CleanLine(lines[ks[n]]))))]

\* the values of the alias lines processed while id was in focus, in line order
AliasValues(id) ==
    LET ks == Ascending({k \in 1..Len(lines) : IsAliasLine(k) /\ FocusAt(k) = Some(id)})
    IN  [n \in 1..Len(ks) |-> MetadataMatch(CleanLine(lines[ks[n]])).value]

SpouseNames(person) == [n \in 1..Len(person.spouses) |-> person.spouses[n].name]

AliasList(person) == IF IsSome(person.alias) THEN Get(person.alias) ELSE <<>>

\* C2 (merge correctness): two new-person records of the same canonical slot whose
\* names are equal ignoring case and whitespace resolve to one identity, the second
\* finds it existing and adds no entry to the person map (the map holds one Person per
\* record that did not find an existing one, and one Person of that name in the slot),
\* and the spouse markers and alias lines that followed the records of that identity
\* are all on that one Person, in line order.
C2_MergeCorrectness ==
    /\ Cardinality(DOMAIN personMap) = Cardinality({i \in PersonEntries : ~log[i].foundExisting})
    /\ \A i, j \in PersonEntries :
          (/\ i < j
           /\ log[i].canonicalId = log[j].canonicalId
           /\ Squash(log[i].name) = Squash(log[j].name))
          => /\ log[j].finalId = log[i].finalId
             /\ log[j].foundExisting
             /\ log[i].finalId \in DOMAIN personMap
             /\ {id \in SlotIds(log[i].canonicalId) \cap DOMAIN personMap :
                    Squash(personMap[id].name) = Squash(log[i].name)} = {log[i].finalId}
             /\ SpouseNames(personMap[log[i].finalId]) = MarkerNames(log[i].finalId)
             /\ AliasList(personMap[log[i].finalId]) = AliasValues(log[i].finalId)

\* "(1) 1 Ann", "& Carol", "(1) 1a AN n", "& Diane": one Person with the spouses
\* Carol and Diane
C2_Witness ==
    /\ lines = <<LineAnn, LineCarol, LineAnnA, LineDiane>>
    /\ DOMAIN personMap = {"root_g1-1"}
    /\ SpouseNames(personMap["root_g1-1"]) =
           << <<"C", "a", "r", "o", "l">>, <<"D", "i", "a", "n", "e">> >>

\* C3 (collision distinctness): two new-person records of the same canonical slot whose
\* names differ under the case-insensitive, whitespace-collapsed comparison resolve to
\* two different identities of that slot (the canonical identity for the first record
\* of the slot, numbered-suffix variants after it), both in the person map, each with
\* the name of its own record and with the spouses and aliases of the lines that
\* followed its own records only.
C3_CollisionDistinctness ==
    \A i, j \in PersonEntries :
        (/\ i < j
         /\ log[i].canonicalId = log[j].canonicalId
         /\ Squash(log[i].name) /= Squash(log[j].name))
        => /\ log[i].finalId /= log[j].finalId
           /\ {log[i].finalId, log[j].finalId} \subseteq SlotIds(log[i].canonicalId) \cap DOMAIN personMap
           /\ (\A h \in PersonEntries : h < i => log[h].canonicalId /= log[i].canonicalId)
                 => /\ log[i].finalId = log[i].canonicalId
                    /\ \E n \in 2..(Len(log) + 1) :
                          log[j].finalId = SlotVariant(log[j].canonicalId, n)
           /\ \A k \in {i, j} :
                 /\ Squash(personMap[log[k].finalId].name) = Squash(log[k].name)
                 /\ SpouseNames(personMap[log[k].finalId]) = MarkerNames(log[k].finalId)
                 /\ AliasList(personMap[log[k].finalId]) = AliasValues(log[k].finalId)

\* "(1) 1 Ann", "& Carol", "(1) 1b Bob", "& Diane": Ann with Carol, Bob with Diane
C3_Witness ==
    /\ lines = <<LineAnn, LineCarol, LineBobB, LineDiane>>
    /\ DOMAIN personMap = {"root_g1-1", "root_g1-1_2"}
    /\ personMap["root_g1-1"].name = <<"A", "n", "n">>
    /\ personMap["root_g1-1_2"].name = <<"B", "o", "b">>
    /\ SpouseNames(personMap["root_g1-1"]) = << <<"C", "a", "r", "o", "l">> >>
    /\ SpouseNames(personMap["root_g1-1_2"]) = << <<"D", "i", "a", "n", "e">> >>

\* this step has processed a new-person record
PersonStep == Len(log') = Len(log) + 1 /\ log'[Len(log')].kind = "person"

\* the children of all Spouses of a Person
ChildrenOf(person) ==
    UNION {{person.spouses[n].childrenIds[c] : c \in 1..Len(person.spouses[n].childrenIds)} :
              n \in 1..Len(person.spouses)}

\* what the ancestry claim says of the step of a new-person record with a parent; of
\* every such record, or (onlyNew) of those that create a Person
AncestryStep(onlyNew) ==
    (/\ PersonStep
     /\ IsSome(log'[Len(log')].parentId)
     /\ (onlyNew => ~log'[Len(log')].foundExisting))
    => LET e      == log'[Len(log')]
           p      == Get(e.parentId)
           before == Len(personMap[p].spouses)
       IN  IF before > 0
           THEN LET kids == personMap'[p].spouses[before].childrenIds
                IN  \E c \in 1..Len(kids) : kids[c] = e.finalId
           ELSE \A id \in DOMAIN personMap' : e.finalId \notin ChildrenOf(personMap'[id])

\* C4 as claimed (ancestry correctness for every new-person record with a parent): if
\* the parent has a Spouse when the record is processed, its most recently added
\* Spouse lists the resolved identity; if it has none, no Spouse lists it.
C4_Original == [][AncestryStep(FALSE)]_vars

\* C4 as amended: the same, for every new-person record with a parent that creates a
\* new Person (a record that merges into an existing Person changes no children list).
C4_AncestryOfNewPersons == [][AncestryStep(TRUE)]_vars

\* "(1) 1 Ann", "& Carol", "& Carol", "(2) 1 Bob": Bob is in the children of the second
\* Spouse of Ann and not of the first
C4_Witness ==
    /\ lines = <<LineAnn, LineCarol, LineCarol, LineKidBob>>
    /\ personMap["root_g1-1"].spouses[1].childrenIds = <<>>
    /\ personMap["root_g1-1"].spouses[2].childrenIds = <<"root_g1-1_g2-1">>

\* the spouse markers among the first upto lines that were processed with id in focus
MarkersUpTo(id, upto) == {k \in 1..upto : IsSpouseMarker(k) /\ FocusAt(k) = Some(id)}

\* C5 (unattached child): a Person created by a record whose parent had no Spouse then
\* is in the person map with parentId equal to the parent's identity; and when the
\* parent gets no spouse marker in the whole input, the returned FamilyData holds that
\* Person, with that parentId, in the children list of no Spouse.
C5_UnattachedChild ==
    \A i \in PersonEntries :
        (/\ ~log[i].foundExisting
         /\ IsSome(log[i].parentId)
         /\ MarkersUpTo(Get(log[i].parentId), i) = {})
        => /\ log[i].finalId \in DOMAIN personMap
           /\ personMap[log[i].finalId].parentId = log[i].parentId
           /\ (pc = "done" /\ MarkersUpTo(Get(log[i].parentId), Len(lines)) = {})
                 => LET all == Get(result).allPersons
                    IN  /\ log[i].finalId \in DOMAIN all
                        /\ all[log[i].finalId].parentId = log[i].parentId
                        /\ \A id \in DOMAIN all : log[i].finalId \notin ChildrenOf(all[id])

\* the parse of "(1) 1 Ann", "(2) 1 Bob" has returned: Bob has Ann for parent, Ann has
\* no Spouse
C5_Witness ==
    /\ pc = "done"
    /\ lines = <<LineAnn, LineKidBob>>
    /\ Get(result).allPersons["root_g1-1_g2-1"].parentId = Some("root_g1-1")
    /\ Get(result).allPersons["root_g1-1"].spouses = <<>>

\* C7 (identity and name stability): a Person in the person map stays in it under its
\* key, and its id, name, generation, original sibling index, parentId, birthYear and
\* deathYear are changed by no later line.
C7_IdentityStability ==
    [][\A id \in DOMAIN personMap :
          /\ id \in DOMAIN personMap'
          /\ personMap[id].id = id
          /\ personMap'[id].id = personMap[id].id
          /\ personMap'[id].name = personMap[id].name
          /\ personMap'[id].generation = personMap[id].generation
          /\ personMap'[id].childIndex = personMap[id].childIndex
          /\ personMap'[id].parentId = personMap[id].parentId
          /\ personMap'[id].birthYear = personMap[id].birthYear
          /\ personMap'[id].deathYear = personMap[id].deathYear]_vars

\* "(1) 1 Ann (1950-)", then a record of the same slot that merges and one of another
\* name: Ann keeps her fields, Bob has an identity of his own
C7_Witness ==
    /\ lines = <<LineAnn, LineAnnA, LineBobB>>
    /\ personMap["root_g1-1"].name = <<"A", "n", "n">>
    /\ personMap["root_g1-1"].childIndex = <<"1">>
    /\ personMap["root_g1-1"].birthYear = Some(1950)
    /\ personMap["root_g1-1_2"].name = <<"B", "o", "b">>

\* C9 (bounded suffix probing): the resolution of a new-person record looks at the
\* candidates canonical, canonical_2, ... in this order and stops at the first that is
\* unoccupied or holds a Person of equal normalized name, after at most k + 1
\* candidates, k being the number of Persons in the slot and its variants.
C9_BoundedProbing ==
    [][PersonStep =>
          LET e == log'[Len(log')]
              k == Cardinality({n \in 1..(Cardinality(DOMAIN personMap) + 1) :
                                   SlotVariant(e.canonicalId, n) \in DOMAIN personMap})
          IN  /\ e.probes >= 1
              /\ e.probes <= k + 1
              /\ e.finalId = SlotVariant(e.canonicalId, e.probes)
              /\ \A n \in 1..(e.probes - 1) :
                    /\ SlotVariant(e.canonicalId, n) \in DOMAIN personMap
                    /\ Squash(personMap[SlotVariant(e.canonicalId, n)].name) /= Squash(e.name)
              /\ e.foundExisting = (e.finalId \in DOMAIN personMap)
              /\ e.foundExisting => Squash(personMap[e.finalId].name) = Squash(e.name)]_vars

\* a slot with two Persons of other names, and a record that took the third candidate
C9_Witness ==
    \E i \in PersonEntries :
        /\ log[i].probes = 3
        /\ log[i].finalId = "root_g1-1_3"
        /\ {"root_g1-1", "root_g1-1_2", "root_g1-1_3"} \subseteq DOMAIN personMap

\* C10 (spouse records): a spouse marker processed while a focus Person exists appends
\* one new Spouse without children to the end of the spouse list of the focus Person
\* and of no other Person and makes it the most recent spouse; no step removes,
\* reorders or merges Spouses, and no other step adds one.
C10_SpouseRecords ==
    [][/\ \A id \in DOMAIN personMap :
             /\ id \in DOMAIN personMap'
             /\ Len(personMap'[id].spouses) >= Len(personMap[id].spouses)
             /\ \A n \in 1..Len(personMap[id].spouses) :
                   personMap'[id].spouses[n].name = personMap[id].spouses[n].name
       /\ IF Len(lines') = Len(lines) + 1 /\ IsMarkerLine(lines'[Len(lines')]) /\ IsSome(currentPerson)
          THEN LET id == Get(currentPerson)
                   sp == [name         |-> extractName(Get(SpouseMatch(CleanLine(lines'[Len(lines')])))),
                          childrenIds  |-> <<>>,
                          nameVN       |-> None,
                          marriageDate |-> None,
                          divorceDate  |-> None]
               IN  /\ DOMAIN personMap' = DOMAIN personMap
                   /\ personMap'[id].spouses = Append(personMap[id].spouses, sp)
                   /\ \A o \in DOMAIN personMap \ {id} : personMap'[o].spouses = personMap[o].spouses
                   /\ currentSpouse' = Some([owner |-> id, idx |-> Len(personMap'[id].spouses)])
                   /\ currentPerson' = currentPerson
          ELSE \A id \in DOMAIN personMap :
                   Len(personMap'[id].spouses) = Len(personMap[id].spouses)]_vars

\* "(1) 1 Ann", "& Diane", "& Carol", "& Carol": three Spouses, the two of the same
\* name kept apart, in line order
C10_Witness ==
    /\ lines = <<LineAnn, LineDiane, LineCarol, LineCarol>>
    /\ SpouseNames(personMap["root_g1-1"]) =
           << <<"D", "i", "a", "n", "e">>, <<"C", "a", "r", "o", "l">>, <<"C", "a", "r", "o", "l">> >>
    /\ currentSpouse = Some([owner |-> "root_g1-1", idx |-> 3])

----------------------------------------------------------------------------
(* Metadata routing and lines of no effect (SpecMeta) *)

\* this step consumes rawLine
Consumes(rawLine) ==
    /\ Len(lines') = Len(lines) + 1
    /\ lines'[Len(lines')] = rawLine

\* the value of the lines "TênVN. Lan", "m. 2011", "div. 2010"
ValueLan == <<"L", "a", "n">>

Value2011 == <<"2", "0", "1", "1">>

Value2010 == <<"2", "0", "1", "0">>

\* the Spouse the parser last created for the focus Person, while it is active
ActiveSpouse(map) == LET p == map[Get(currentPerson)] IN p.spouses[Len(p.spouses)]

\* no Person of the map before the step has its nameVN changed by the step
PersonNamesKept == \A id \in DOMAIN personMap : personMap'[id].nameVN = personMap[id].nameVN

\* no Person of the map before the step has its spouse list changed by the step
SpousesKept == \A id \in DOMAIN personMap : personMap'[id].spouses = personMap[id].spouses

\* C11 (localized-name routing): a "TênVN." line processed with a focus Person
\* sets nameVN of the most recent Spouse when one is active, leaving every
\* Person's nameVN as it was; otherwise it sets nameVN of the focus Person and
\* changes no Spouse.
C11_LocalizedNameRouting ==
    [][(Consumes(LineNameVN) /\ IsSome(currentPerson)) =>
           IF IsSome(currentSpouse)
           THEN /\ ActiveSpouse(personMap').nameVN = Some(ValueLan)
                /\ PersonNamesKept
           ELSE /\ personMap'[Get(currentPerson)].nameVN = Some(ValueLan)
                /\ SpousesKept]_vars

\* "(1) 1 Ann", "TênVN. Lan", "& Carol", "TênVN. Lan": the first name went to Ann,
\* the second to Carol
C11_Witness ==
    /\ lines = <<LineAnn, LineNameVN, LineCarol, LineNameVN>>
    /\ personMap["root_g1-1"].nameVN = Some(ValueLan)
    /\ personMap["root_g1-1"].spouses[1].nameVN = Some(ValueLan)

\* the parser state other than the map of Persons
FocusState == <<currentPerson, currentSpouse, parentStack, rootId>>

\* the map of Persons with the one date field of the active Spouse set
WithActiveDate(key, value) ==
    LET id == Get(currentPerson)
        n  == Len(personMap[id].spouses)
    IN  IF key = "marriage"
        THEN [personMap EXCEPT ![id].spouses[n].marriageDate = Some(value)]
        ELSE [personMap EXCEPT ![id].spouses[n].divorceDate = Some(value)]

\* C12 (marriage/divorce routing): a "m." or "div." line sets that field of the
\* most recent Spouse if one is active and changes nothing else; with no active
\* Spouse it changes no Person, no Spouse, and neither focus, stack nor root.
C12_DateRouting ==
    [][\A key \in {"marriage", "divorce"} :
          LET full  == IF key = "marriage" THEN LineMarriage ELSE LineDivorce
              empty == IF key = "marriage" THEN LineMarriageEmpty ELSE LineDivorceEmpty
              value == IF key = "marriage" THEN Value2011 ELSE Value2010
          IN  /\ (Consumes(full) /\ IsSome(currentSpouse)) =>
                    /\ personMap' = WithActiveDate(key, value)
                    /\ FocusState' = FocusState
              /\ ((Consumes(full) \/ Consumes(empty)) /\ ~IsSome(currentSpouse)) =>
                    /\ personMap' = personMap
                    /\ FocusState' = FocusState]_vars

\* "(1) 1 Ann", "& Carol", "m. 2011", "div. 2010": Carol has both dates
C12_Witness ==
    /\ lines = <<LineAnn, LineCarol, LineMarriage, LineDivorce>>
    /\ personMap["root_g1-1"].spouses[1].marriageDate = Some(Value2011)
    /\ personMap["root_g1-1"].spouses[1].divorceDate = Some(Value2010)

\* the lines of MetaInputLines that are a spouse marker or a metadata label
MarkerOrLabelLines ==
    {LineCarol, LineNameVN, LineMarriage, LineMarriageEmpty, LineDivorce, LineDivorceEmpty}

\* C13 (lines of no effect): an empty line, a line containing the section-header
\* marker, a line of no known shape, and any spouse or metadata line before the
\* first new-person record change neither the map of Persons, the focus Person,
\* the most recent Spouse, the ancestry stack nor the root.
C13_NoEffectLines ==
    [][((\E rawLine \in {LineBlank, LineHeader, LineJunk} : Consumes(rawLine))
        \/ (\E rawLine \in MarkerOrLabelLines :
               /\ Consumes(rawLine)
               /\ \A k \in 1..Len(lines) : lines[k] \notin {LineAnn, LineAnnA, LineZed}))
       => /\ personMap' = personMap
          /\ FocusState' = FocusState]_vars

\* "(1) 1 Ann", "& Carol" and then a header line and a line of no known shape:
\* the state is that of the first two lines
C13_Witness ==
    /\ lines = <<LineAnn, LineCarol, LineHeader, LineJunk>>
    /\ DOMAIN personMap = {"root_g1-1"}
    /\ Len(personMap["root_g1-1"].spouses) = 1
    /\ currentSpouse = Some([owner |-> "root_g1-1", idx |-> 1])
    /\ Len(parentStack) = 1

\* C14 (empty metadata value): a "m." or "div." line with an empty value,
\* processed with an active Spouse, leaves that Spouse's marriageDate or
\* divorceDate as it was: absent if it was absent, and a value set before is
\* not replaced by an empty one.
C14_EmptyValueLeavesField ==
    [][/\ (Consumes(LineMarriageEmpty) /\ IsSome(currentSpouse)) =>
             /\ ActiveSpouse(personMap').marriageDate = ActiveSpouse(personMap).marriageDate
             /\ ActiveSpouse(personMap').marriageDate /= Some(<<>>)
       /\ (Consumes(LineDivorceEmpty) /\ IsSome(currentSpouse)) =>
             /\ ActiveSpouse(personMap').divorceDate = ActiveSpouse(personMap).divorceDate
             /\ ActiveSpouse(personMap').divorceDate /= Some(<<>>)]_vars

----------------------------------------------------------------------------
(* Year extraction (SpecYears) *)

\* the input of the call and, once it has returned, its value
YearsIn == Get(arg)

YearsOut == ret[1]

\* the number a side of the range stands for when its token is a 4-digit number
\* after an optional approximation marker; absent for every other token
SideYear(mark, digits) ==
    IF mark \in {<<>>, <<"<">>, <<">">>, <<"c", "a">>} /\ Len(digits) = 4
    THEN Some(IF digits = <<"1", "9", "2", "0">> THEN 1920 ELSE 1995)
    ELSE None

\* C15 (year extraction boundary): "(1920-1995)" yields birthYear 1920 and
\* deathYear 1995; "(ca1920-)" yields birthYear 1920 and no deathYear; "()" and a
\* text without parenthesized range yield neither; whenever a year is returned,
\* birthYear is the number of the left token and deathYear that of the right.
C15_YearBoundary ==
    ret /= <<>> =>
        /\ (YearsIn.shape = "range" /\ YearsIn.lmark = <<>> /\ YearsIn.rmark = <<>>
            /\ Len(YearsIn.ldigits) = 4 /\ Len(YearsIn.rdigits) = 4)
               => YearsOut = [birthYear |-> Some(1920), deathYear |-> Some(1995)]
        /\ (YearsIn.shape = "range" /\ YearsIn.lmark = <<"c", "a">> /\ YearsIn.rmark = <<>>
            /\ Len(YearsIn.ldigits) = 4 /\ YearsIn.rdigits = <<>>)
               => YearsOut = [birthYear |-> Some(1920), deathYear |-> None]
        /\ YearsIn.shape \in {"empty", "none"}
               => YearsOut = [birthYear |-> None, deathYear |-> None]
        /\ YearsOut.birthYear \in {None, Some(1920)}
        /\ YearsOut.deathYear \in {None, Some(1995)}

\* parseYears("Ann (ca1920 - )") has returned birthYear 1920 and no deathYear
C15_Witness ==
    /\ arg = Some([shape |-> "range", lmark |-> <<"c", "a">>, ldigits |-> <<"1", "9", "2", "0">>,
                   rmark |-> <<>>, rdigits |-> <<>>, gap |-> <<" ">>])
    /\ ret = <<[birthYear |-> Some(1920), deathYear |-> None]>>

\* C16 (independent year sides): within a parenthesized range, a side whose token
\* is a 4-digit number after an optional "<", ">" or "ca" yields that number, on
\* the left and on the right alike; a missing or malformed side yields an absent
\* value for that side only.
C16_IndependentSides ==
    (ret /= <<>> /\ YearsIn.shape = "range") =>
        /\ YearsOut.birthYear = SideYear(YearsIn.lmark, YearsIn.ldigits)
        /\ YearsOut.deathYear = SideYear(YearsIn.rmark, YearsIn.rdigits)

----------------------------------------------------------------------------
(* Name extraction (SpecName) *)

\* a token is a marker word: VN, né or née in any case
IsMarkerWord(w) ==
    w \in {<<"V", "N">>, <<"v", "n">>, <<"V", "n">>, <<"v", "N">>,
           <<"n", "é">>, <<"N", "é">>, <<"n", "é", "e">>, <<"N", "é", "e">>}

\* the text has a localized-name annotation: a marker word standing as its own
\* token and followed by a token
HasAnnotation(in) ==
    \E i \in 1..(Len(in.words) - 1) : IsMarkerWord(in.words[i])

\* the text has a parenthesis
HasParens(in) ==
    \E i \in 1..Len(in.words) : \E k \in 1..Len(in.words[i]) : in.words[i][k] \in {"(", ")"}

\* C17 (idempotent field extraction): on a text without parentheses and without
\* localized-name annotation extractName returns the trimmed text unchanged, and
\* applied to that value returns it again.
C17_PlainNameUnchanged ==
    (ret /= <<>> /\ ~HasParens(Get(arg)) /\ ~HasAnnotation(Get(arg))) =>
        /\ ret[1] = JoinWords(Get(arg).words)
        /\ Len(ret) = 2 => ret[2] = ret[1]

----------------------------------------------------------------------------
(* Totality of parseFamilyTree (SpecMeta) *)

\* every reference the loop body may follow leads to a Person or Spouse of the map
ReferencesResolve ==
    /\ IsSome(currentPerson) => Get(currentPerson) \in DOMAIN personMap
    /\ IsSome(currentSpouse) =>
           /\ IsSome(currentPerson)
           /\ Get(currentSpouse).owner \in DOMAIN personMap
           /\ Get(currentSpouse).idx \in 1..Len(personMap[Get(currentSpouse).owner].spouses)
    /\ \A k \in 1..Len(parentStack) : parentStack[k].personId \in DOMAIN personMap

\* C18 (totality): whatever lines were consumed (person, spouse, metadata, header,
\* empty and unrecognized lines in any order, generation 0 records, records before
\* any root, repeated records), each was processed exactly once and in order, no
\* reference dangles, the loop can reach the end of the input, and at the end the
\* FamilyData of the map and root is returned.
C18_ParserTotal ==
    /\ pc \in {"loop", "done"}
    /\ Len(log) = Len(lines)
    /\ \A k \in 1..Len(lines) :
           /\ log[k].kind = "skip" <=> lines[k] \in {LineBlank, LineHeader}
           /\ log[k].kind = "person" <=> lines[k] \in {LineAnn, LineAnnA, LineZed}
    /\ ReferencesResolve
    /\ pc = "loop" =>
           /\ result = None
           /\ ENABLED Return
    /\ pc = "done" => result = Some([allPersons |-> personMap, rootId |-> rootId])

\* "& Carol" before any record, a generation 0 record, a header line, a
\* generation 1 record: two Persons and the root are returned
C18_Witness ==
    /\ lines = <<LineCarol, LineZed, LineHeader, LineAnnA>>
    /\ pc = "done"
    /\ IsSome(result)
    /\ Cardinality(DOMAIN Get(result).allPersons) = 2
    /\ Get(result).rootId \in DOMAIN Get(result).allPersons

----------------------------------------------------------------------------
(* Layout tolerance (SpecLayout) *)

\* the identities a layout names: its nodes and both ends of its edges
LayoutIds(out) ==
    {out.nodes[i].id : i \in 1..Len(out.nodes)}
    \cup {out.edges[i].source : i \in 1..Len(out.edges)}
    \cup {out.edges[i].target : i \in 1..Len(out.edges)}

\* the arguments without the identities that are no key of allPersons: out of
\* expandedNodes and out of every children list
WithoutAbsent(in) ==
    [allPersons    |-> [id \in DOMAIN in.allPersons |->
                           [in.allPersons[id] EXCEPT !.spouses =
                               [i \in 1..Len(@) |->
                                   [@[i] EXCEPT !.childrenIds =
                                       SelectSeq(@, LAMBDA c : c \in DOMAIN in.allPersons)]]]],
     rootId        |-> in.rootId,
     expandedNodes |-> in.expandedNodes \cap DOMAIN in.allPersons]

\* C19 (layout tolerance): getLayoutedElements returns, with no node and no edge when
\* rootId is empty or no key of allPersons; identities of expandedNodes and of
\* children lists that are no key of allPersons are ignored (the nodes and edges
\* are those of the arguments without them), and no node or edge end is an
\* identity allPersons lacks.
C19_LayoutTolerance ==
    ret /= <<>> =>
        LET in    == Get(arg)
            out   == ret[1]
            clean == WithoutAbsent(in)
        IN  /\ ~out.thrown
            /\ (in.rootId = "" \/ in.rootId \notin DOMAIN in.allPersons)
                   => (out.nodes = <<>> /\ out.edges = <<>>)
            /\ LayoutIds(out) \subseteq DOMAIN in.allPersons
            /\ LET cleanOut == getLayoutedElements(clean.allPersons, clean.rootId, clean.expandedNodes)
               IN  /\ {out.nodes[i].id : i \in 1..Len(out.nodes)}
                        = {cleanOut.nodes[i].id : i \in 1..Len(cleanOut.nodes)}
                   /\ out.edges = cleanOut.edges

\* Person "a" lists "b" and the ghost, "b" is absent from allPersons, "a" and the
\* ghost are expanded: the layout is the node "a" alone
C19_Witness ==
    /\ IsSome(arg)
    /\ DOMAIN Get(arg) = {"allPersons", "rootId", "expandedNodes"}
    /\ DOMAIN Get(arg).allPersons = {"a"}
    /\ Get(arg).allPersons["a"].spouses[1].childrenIds = <<"b", GhostId>>
    /\ Get(arg).rootId = "a"
    /\ Get(arg).expandedNodes = {"a", GhostId}
    /\ ret /= <<>>
    /\ ~ret[1].thrown
    /\ Len(ret[1].nodes) = 1
    /\ ret[1].nodes[1].id = "a"
    /\ ret[1].edges = <<>>

----------------------------------------------------------------------------
(* The store and Person internals (SpecStore) *)

\* both stores have been handed their FamilyData
BothLoaded == IsSome(store.familyData) /\ IsSome(twin.familyData)

\* the two stores show the same: expanded identities, highlight, pending
\* timeouts, and the answers of the last isExpanded
StoresAgree ==
    /\ store.expandedNodes = twin.expandedNodes
    /\ store.highlightedNode = twin.highlightedNode
    /\ store.timers = twin.timers
    /\ ret /= <<>> => ret[1].answer = ret[1].twinAnswer

\* the two FamilyData give every identity the same generation
SameGenerations ==
    \A id \in DOMAIN Get(arg).data.allPersons :
        Get(arg).data.allPersons[id].generation = Get(arg).twinData.allPersons[id].generation

\* C20 as stated: two stores handed FamilyData values with the same identities
\* show the same expandedNodes and highlightedNode after every operation,
\* whatever the Persons' generations, names and spouses are.
C20_Original == BothLoaded => StoresAgree

\* C20 (amended): two stores handed FamilyData values with the same identities
\* and the same generation for each identity show the same expandedNodes and
\* highlightedNode after every operation, whatever the names and spouses are.
C20_IdentityAndGenerationOnly == (BothLoaded /\ SameGenerations) => StoresAgree

\* the two FamilyData differ in names and children and agree on the generations;
\* generation 2 was collapsed: both stores have "a" alone expanded
C20_Witness ==
    /\ IsSome(arg)
    /\ DOMAIN Get(arg) = {"data", "twinData"}
    /\ SameGenerations
    /\ Get(arg).data.allPersons["b"].generation = 2
    /\ Get(arg).data.allPersons["a"].name /= Get(arg).twinData.allPersons["a"].name
    /\ Get(arg).data.allPersons["a"].spouses /= Get(arg).twinData.allPersons["a"].spouses
    /\ BothLoaded
    /\ store.expandedNodes = {"a"}
    /\ twin.expandedNodes = {"a"}

----------------------------------------------------------------------------
(* Graph invariants of the parse state (Spec, SpecDeep) *)

\* the canonical identity of the slot a Person occupies, from its own fields:
\* parent identity, generation and the digits of its child index
SlotOfPerson(person) ==
    (IF IsSome(person.parentId) THEN Get(person.parentId) ELSE "root")
        \o "_g" \o NatToStr(person.generation) \o "-"
        \o Join(SelectSeq(person.childIndex, IsDigit))

\* the numbers n whose variant of the slot is taken (1 is the canonical identity)
OccupiedVariants(canonicalId) ==
    {n \in 1..(Len(log) + 1) : SlotVariant(canonicalId, n) \in DOMAIN personMap}

\* C21 (no duplicated individuals): no two distinct Persons of the map occupy the
\* same canonical slot with equal normalized names, every Person's key is a
\* variant of its slot, and the occupied variants of a slot are the canonical
\* identity followed by a gap-free run "_2" .. "_n".
C21_NoDuplicates ==
    /\ \A p, q \in DOMAIN personMap :
          (p /= q /\ SlotOfPerson(personMap[p]) = SlotOfPerson(personMap[q]))
              => Squash(personMap[p].name) /= Squash(personMap[q].name)
    /\ \A p \in DOMAIN personMap :
          LET occupied == OccupiedVariants(SlotOfPerson(personMap[p]))
          IN  /\ \E n \in occupied : p = SlotVariant(SlotOfPerson(personMap[p]), n)
              /\ occupied = 1..Cardinality(occupied)

\* the slot of generation 1, index 1 holds three Persons of different names, and
\* a record of an equal name has merged into one of them
C21_Witness ==
    /\ {"root_g1-1", "root_g1-1_2", "root_g1-1_3"} \subseteq DOMAIN personMap
    /\ \E i \in PersonEntries : log[i].foundExisting /\ log[i].canonicalId = "root_g1-1"

\* C22 (no cycles in the parent direction): every Person's parentId, when
\* present, is the key of a Person of strictly smaller generation; hence the path
\* getPathToRoot follows from any Person names no Person twice, is no longer than
\* the Person's generation allows, and ends at a Person without parent.
C22_ParentAcyclic ==
    /\ \A id \in DOMAIN personMap :
          IsSome(personMap[id].parentId) =>
              /\ Get(personMap[id].parentId) \in DOMAIN personMap
              /\ personMap[Get(personMap[id].parentId)].generation < personMap[id].generation
    /\ \A id \in DOMAIN personMap :
          LET path == getPathToRoot(personMap, id)
          IN  /\ path[1] = id
              /\ Len(path) <= personMap[id].generation + 1
              /\ \A i, j \in 1..Len(path) : path[i] = path[j] => i = j
              /\ ~IsSome(personMap[path[Len(path)]].parentId)

\* a Person of generation 3 under Persons of generations 2, 1 and 0: its path to
\* the root names four Persons
C22_Witness ==
    \E id \in DOMAIN personMap :
        /\ personMap[id].generation = 3
        /\ Len(getPathToRoot(personMap, id)) = 4

----------------------------------------------------------------------------
(* The most recent Spouse after a new-person record (SpecMeta) *)

\* the new-person records of MetaInputLines
RecordLines == {LineAnn, LineAnnA, LineZed}

\* a new-person record was consumed and no spouse marker after it
NoMarkerSinceRecord ==
    \E k \in 1..Len(lines) :
        /\ lines[k] \in RecordLines
        /\ \A j \in (k + 1)..Len(lines) : lines[j] /= LineCarol

\* C23 (reset of the most recent Spouse): every new-person record, creating or
\* merging, leaves no Spouse active; from then until the next spouse marker a
\* marriage or divorce line changes nothing and a localized-name line sets nameVN
\* of the focus Person and changes no Spouse, also when that Person has Spouses.
C23_SpouseResetByRecord ==
    [][/\ (\E rawLine \in RecordLines : Consumes(rawLine)) => currentSpouse' = None
       /\ (NoMarkerSinceRecord
           /\ \E rawLine \in {LineMarriage, LineMarriageEmpty, LineDivorce, LineDivorceEmpty} :
                 Consumes(rawLine))
             => personMap' = personMap
       /\ (NoMarkerSinceRecord /\ Consumes(LineNameVN))
             => /\ personMap'[Get(currentPerson)].nameVN = Some(ValueLan)
                /\ SpousesKept]_vars

\* "(1) 1 Ann", "& Carol", then "(1) 1a AN n" re-enters Ann, and "TênVN. Lan" is
\* written to Ann, not to Carol
C23_Witness ==
    /\ lines = <<LineAnn, LineCarol, LineAnnA, LineNameVN>>
    /\ DOMAIN personMap = {"root_g1-1"}
    /\ personMap["root_g1-1"].nameVN = Some(ValueLan)
    /\ Len(personMap["root_g1-1"].spouses) = 1
    /\ personMap["root_g1-1"].spouses[1].nameVN = None

----------------------------------------------------------------------------
(* Person lifecycle (Spec) *)

\* the new-person records of InputLines
SpecRecordLines == {LineAnn, LineAnnA, LineBobB, LineCy, LineKidBob, LineKidEve}

\* a Person without the children lists of its Spouses
WithoutChildren(person) ==
    [person EXCEPT !.spouses = [i \in 1..Len(@) |-> [@[i] EXCEPT !.childrenIds = <<>>]]]

\* C24 (Person lifecycle): no step removes a Person from the map or replaces it
\* (a new-person record leaves every Person it finds as it is, up to a child
\* appended to a children list); a spouse or metadata line changes the alias
\* list, the metadata fields and the spouse list of the focus Person only, every
\* other Person is unchanged by it.
C24_PersonLifecycle ==
    [][/\ DOMAIN personMap \subseteq DOMAIN personMap'
       /\ (\E rawLine \in SpecRecordLines : Consumes(rawLine)) =>
              \A id \in DOMAIN personMap :
                  /\ WithoutChildren(personMap'[id]) = WithoutChildren(personMap[id])
                  /\ Len(personMap'[id].spouses) = Len(personMap[id].spouses)
       /\ (\E rawLine \in InputLines \ SpecRecordLines : Consumes(rawLine)) =>
              /\ DOMAIN personMap' = DOMAIN personMap
              /\ \A id \in DOMAIN personMap :
                    (~IsSome(currentPerson) \/ id /= Get(currentPerson))
                        => personMap'[id] = personMap[id]]_vars

\* "(1) 1 Ann", "(1) 1b Bob", "& Carol", "ali. Al": the marker and the alias went
\* to Bob, Ann is as her record left her
C24_Witness ==
    /\ lines = <<LineAnn, LineBobB, LineCarol, LineAlias>>
    /\ DOMAIN personMap = {"root_g1-1", "root_g1-1_2"}
    /\ personMap["root_g1-1"].spouses = <<>>
    /\ personMap["root_g1-1"].alias = None
    /\ Len(personMap["root_g1-1_2"].spouses) = 1
    /\ personMap["root_g1-1_2"].alias = Some(<< <<"A", "l">> >>)

----------------------------------------------------------------------------
(* Children lists (Spec) *)

\* the places of the graph where a children list names the identity: owner,
\* Spouse, position
ChildPlaces(childId) ==
    {<<id, s, c>> \in
        UNION {{<<id, s, c>> : c \in 1..Len(personMap[id].spouses[s].childrenIds)} :
               <<id, s>> \in UNION {{<<id, s>> : s \in 1..Len(personMap[id].spouses)} :
                                      id \in DOMAIN personMap}} :
        personMap[id].spouses[s].childrenIds[c] = childId}

\* every identity a children list names
ListedChildren ==
    UNION {{personMap[id].spouses[s].childrenIds[c] :
                c \in 1..Len(personMap[id].spouses[s].childrenIds)} :
           <<id, s>> \in UNION {{<<id, s>> : s \in 1..Len(personMap[id].spouses)} :
                                  id \in DOMAIN personMap}}

\* C25 (children lists): every identity a children list names is named once in
\* the whole graph (no list names it twice, no two Spouses name it), is the key of
\* a Person whose parentId is the owner of that list and whose generation is
\* greater than the owner's: the spouse-children relation is a forest, and
\* addVisible, with every Person expanded, returns from any Person having visited
\* Persons of the map only, each once.
C25_ChildrenConsistent ==
    /\ \A childId \in ListedChildren :
          /\ Cardinality(ChildPlaces(childId)) = 1
          /\ childId \in DOMAIN personMap
          /\ \A place \in ChildPlaces(childId) :
                /\ personMap[childId].parentId = Some(place[1])
                /\ personMap[childId].generation > personMap[place[1]].generation
    /\ \A id \in DOMAIN personMap :
          LET call    == addVisible(personMap, DOMAIN personMap, <<>>, id)
              visible == call.visiblePersons
          IN  /\ ~call.thrown
              /\ Len(visible) <= Cardinality(DOMAIN personMap)
              /\ \A i \in 1..Len(visible) : visible[i] \in DOMAIN personMap

\* "(1) 1 Ann", "& Carol", "(2) 1 Bob", "(2) 1a Eve": Carol lists two children,
\* both with parent Ann
C25_Witness ==
    /\ lines = <<LineAnn, LineCarol, LineKidBob, LineKidEve>>
    /\ Len(personMap["root_g1-1"].spouses[1].childrenIds) = 2
    /\ Cardinality(ListedChildren) = 2
    /\ \A childId \in ListedChildren : personMap[childId].parentId = Some("root_g1-1")

----------------------------------------------------------------------------
(* The ancestry stack and the most recent Spouse (SpecDeep, SpecMeta) *)

\* C26 (ancestry stack): after every processed line the generations on the stack
\* increase strictly from bottom to top, every identity on it is a key of the
\* map, the stack is empty exactly when there is no focus Person, and its top
\* entry is the identity of the focus Person.
C26_StackInvariant ==
    /\ \A i, j \in 1..Len(parentStack) :
          i < j => parentStack[i].generation < parentStack[j].generation
    /\ \A i \in 1..Len(parentStack) : parentStack[i].personId \in DOMAIN personMap
    /\ (parentStack = <<>>) <=> (currentPerson = None)
    /\ parentStack /= <<>> => currentPerson = Some(parentStack[Len(parentStack)].personId)

\* a stack of four entries, generations 0 to 3, and then a generation 1 record:
\* two entries are left, the focus Person on top
C26_Witness ==
    /\ lines = <<LineZed, LineAnn, LineKidBob, LineGrandKid, LineAnnA>>
    /\ Len(parentStack) = 2
    /\ parentStack[1].generation = 0
    /\ parentStack[2].generation = 1
    /\ \E i \in PersonEntries : log[i].generation = 3
    /\ currentPerson = Some(parentStack[2].personId)

\* C27 (most recent Spouse): after every processed line, if a Spouse is active
\* then a focus Person exists and the active Spouse is the last element of that
\* Person's spouse list; it is never a Spouse of another Person.
C27_ActiveSpouseIsLast ==
    IsSome(currentSpouse) =>
        /\ IsSome(currentPerson)
        /\ Get(currentSpouse).owner = Get(currentPerson)
        /\ personMap[Get(currentPerson)].spouses /= <<>>
        /\ Get(currentSpouse).idx = Len(personMap[Get(currentPerson)].spouses)

\* "(0) 1 Zed", "& Carol", "(1) 1 Ann", "& Carol": Zed and Ann have a Spouse each,
\* the active one is Ann's
C27_Witness ==
    /\ lines = <<LineZed, LineCarol, LineAnn, LineCarol>>
    /\ Len(personMap["root_g0-1"].spouses) = 1
    /\ currentPerson = Some("root_g0-1_g1-1")
    /\ currentSpouse = Some([owner |-> "root_g0-1_g1-1", idx |-> 1])

----------------------------------------------------------------------------
(* Layout visibility (SpecLayout) *)

\* the child identities a Person of the arguments lists, as a set
ListedBy(in, id) ==
    UNION {{in.allPersons[id].spouses[s].childrenIds[c] :
                c \in 1..Len(in.allPersons[id].spouses[s].childrenIds)} :
           s \in 1..Len(in.allPersons[id].spouses)}

RECURSIVE ReachFrom(_, _)
\* the least set of Persons that holds reached and, for each of its expanded
\* Persons, the Persons it lists
ReachFrom(in, reached) ==
    LET more == {c \in DOMAIN in.allPersons :
                    \E p \in reached \cap in.expandedNodes : c \in ListedBy(in, p)}
    IN  IF more \subseteq reached THEN reached ELSE ReachFrom(in, reached \cup more)

\* the Persons reachable from rootId through the children lists of expanded Persons
Reachable(in) ==
    IF in.rootId /= "" /\ in.rootId \in DOMAIN in.allPersons
    THEN ReachFrom(in, {in.rootId})
    ELSE {}

\* the identities of the arguments are identities as parseFamilyTree builds them
\* (parser.ts 98-100, 114: "root_g..." or the parent's identity with "_g..." and a
\* suffix): neither rootId nor a listed child is a name inherited from Object.prototype
ParserIdentities(in) ==
    /\ in.rootId \notin InheritedNames
    /\ \A p \in DOMAIN in.allPersons : ListedBy(in, p) \cap InheritedNames = {}

\* C28 (layout visibility): for a FamilyData whose identities are parser identities
\* and any expandedNodes, getLayoutedElements returns, and its nodes are exactly the
\* Persons reachable from rootId through the children lists of expanded Persons
\* (the root included when it exists), one node for each; every edge goes from a
\* node to a node that the source lists as a child; a Person other than the root
\* that no children list names has no node.
C28_LayoutVisibility ==
    (ret /= <<>> /\ ParserIdentities(Get(arg))) =>
        LET in      == Get(arg)
            out     == ret[1]
            nodeIds == {out.nodes[i].id : i \in 1..Len(out.nodes)}
        IN  /\ ~out.thrown
            /\ nodeIds = Reachable(in)
            /\ \A i, j \in 1..Len(out.nodes) : out.nodes[i].id = out.nodes[j].id => i = j
            /\ \A i \in 1..Len(out.edges) :
                  /\ out.edges[i].source \in nodeIds
                  /\ out.edges[i].target \in nodeIds
                  /\ out.edges[i].target \in ListedBy(in, out.edges[i].source)
            /\ \A id \in nodeIds :
                  id = in.rootId \/ \E p \in DOMAIN in.allPersons : id \in ListedBy(in, p)
            /\ \A id \in DOMAIN in.allPersons :
                  (id /= in.rootId /\ \A p \in DOMAIN in.allPersons : id \notin ListedBy(in, p))
                      => id \notin nodeIds

\* "a" lists "b", "b" lists "c", only "a" is expanded: the nodes are "a" and "b",
\* the one edge is "a-b", and "c" is not laid out
C28_Witness ==
    /\ IsSome(arg)
    /\ DOMAIN Get(arg) = {"allPersons", "rootId", "expandedNodes"}
    /\ DOMAIN Get(arg).allPersons = {"a", "b", "c"}
    /\ Get(arg).allPersons["a"].spouses[1].childrenIds = <<"b">>
    /\ Get(arg).allPersons["b"].spouses[1].childrenIds = <<"c">>
    /\ Get(arg).rootId = "a"
    /\ Get(arg).expandedNodes = {"a"}
    /\ ParserIdentities(Get(arg))
    /\ ret /= <<>>
    /\ ~ret[1].thrown
    /\ Len(ret[1].nodes) = 2
    /\ ret[1].edges = <<[id |-> "a-b", source |-> "a", target |-> "b"]>>

----------------------------------------------------------------------------
(* Highlight timing (SpecStore) *)

\* this step is a call highlightNode(id) with an identity: one more timeout pends
IsHighlightCall == store'.timers = store.timers + 1

\* this step is the expiry of a timeout; timeouts of equal delay expire in the
\* order they were set, so with two or more pending the one that expires was set
\* by an earlier call than the last highlightNode(id)
IsTimeoutStep == store'.timers = store.timers - 1

\* C29 (highlight timing): highlightNode(id) with an identity makes it the
\* highlight, and the highlight stays until a later highlightNode call or the
\* timeout set by that same call; the timeout of an earlier call does not clear
\* the highlight a later call has set.
C29_HighlightTiming ==
    [][/\ IsHighlightCall => IsSome(store'.highlightedNode)
       /\ (IsTimeoutStep /\ store.timers >= 2)
              => store'.highlightedNode = store.highlightedNode
       /\ (IsTimeoutStep /\ store.timers = 1) => store'.highlightedNode = None
       /\ store'.timers = store.timers
              => (store'.highlightedNode = store.highlightedNode
                  \/ store'.highlightedNode = None)]_vars

====
